---- MODULE Spec2Model ----
(***************************************************************************)
(* A model of the transform-coding explorer: the block partitioner         *)
(* (lib/imageUtils), the transform core (lib/transforms.js) and the        *)
(* component that drives them (App).                                       *)
(*                                                                         *)
(* Numbers.  A JavaScript double is modelled as a fixed-point integer: the *)
(* integer n stands for n / One.  Every product and quotient is rounded to *)
(* the nearest unit, as a floating-point operation rounds to the nearest   *)
(* representable value.  A Float32Array holds only every F32Step-th value, *)
(* so a store into one rounds (Fround).  NaN, +Infinity, -Infinity and     *)
(* undefined are four integers outside the range arithmetic reaches.       *)
(*                                                                         *)
(* Arrays.  A JavaScript array a of length n is the sequence of its        *)
(* elements: a[i] in the source is a[i + 1] here.                          *)
(*                                                                         *)
(* Calls.  A call that can throw yields a record: Return(v) or Throw(msg). *)
(*                                                                         *)
(* The App.  Its useState values and its refs are variables.  A handler    *)
(* runs to completion, so an action is one handler, or the part of an      *)
(* async handler between two awaits (Spec); LiveSpec adds that a queued    *)
(* timer continuation is run.  The hidden canvas is kept, since            *)
(* toGrayscaleFloat reads back what it has drawn on it; the other canvases *)
(* are output no handler reads and are not kept.  Each core function is    *)
(* also run on its own over bounded inputs (SpecPartition, SpecTopK,       *)
(* SpecPsnr, SpecHadamard, SpecTransform, SpecEnergy, SpecRD, SpecPca),    *)
(* with the App left as first rendered.                                    *)
(*                                                                         *)
(* The heap.  Where it matters which array a write lands in, the arrays    *)
(* live in a heap and a reference is a position in it (SpecFrame).         *)
(***************************************************************************)
EXTENDS Integers, Sequences, FiniteSets, TLC

\* A core function run on its own
VARIABLES
    pc,     \* position of the run under study
    arg,    \* the arguments the run was started with
    ret     \* what the calls made so far have returned

\* The App component: its useState values ...
VARIABLES
    imageUrl,           \* text of the URL field, "" when empty
    imageFile,          \* name of the chosen file, "" for null
    blockSize,          \* number in the block-size field
    kShow,              \* number in the k field
    status,
    metrics,
    isRunning,
    isSweepRunning,
    canRun,
    dctMatrix,
    hadMatrix

\* ... its refs (.current) ...
VARIABLES
    energyChartRef,     \* data of the energy chart
    rdChartRef,         \* data of the rate-distortion chart
    originalImageRef,
    blocksFlatRef,
    blocksShapeRef,
    T_dctRef,
    T_hadRef,
    T_pcaRef,
    pcaMeanRef,
    imgElementRef       \* source of the Image element, "" for null

\* ... the hidden canvas and what leaves the page ...
VARIABLES
    hiddenCanvas,       \* width, height and pixels of hiddenCanvasRef.current
    consoleTable,       \* the results given to console.table
    download            \* the file the sweep hands to the browser

\* ... and what is in flight
VARIABLES
    loading,    \* Image objects whose onload or onerror has yet to fire
    running,    \* the locals of runAnalysis while it awaits its timeout
    sweeping,   \* the locals of runSweepForCurrentImage while it awaits
    events      \* number of inputs and clicks so far

harnessVars == <<pc, arg, ret>>

appVars == <<imageUrl, imageFile, blockSize, kShow, status, metrics,
             isRunning, canRun, dctMatrix, hadMatrix,
             energyChartRef, rdChartRef, originalImageRef, blocksFlatRef,
             blocksShapeRef, T_dctRef, T_hadRef, T_pcaRef, pcaMeanRef,
             imgElementRef, loading, running, events,
             isSweepRunning, hiddenCanvas, consoleTable, download, sweeping>>

\* What only the sweep writes
sweepVars == <<isSweepRunning, consoleTable, download, sweeping>>

vars == <<harnessVars, appVars>>

\* null, and a reference that holds v
Null == <<>>
Some(v) == <<v>>

DefaultBlockSize == 8   \* useState(8)
DefaultKShow == 16      \* useState(16)

\* The component as first rendered: lines 143..174.
AppStart ==
    /\ imageUrl = ""
    /\ imageFile = ""
    /\ blockSize = DefaultBlockSize
    /\ kShow = DefaultKShow
    /\ status = ""
    /\ metrics = Null
    /\ isRunning = FALSE
    /\ canRun = FALSE
    /\ dctMatrix = Null
    /\ hadMatrix = Null
    /\ energyChartRef = Null
    /\ rdChartRef = Null
    /\ originalImageRef = Null
    /\ blocksFlatRef = Null
    /\ blocksShapeRef = Null
    /\ T_dctRef = Null
    /\ T_hadRef = Null
    /\ T_pcaRef = Null
    /\ pcaMeanRef = Null
    /\ imgElementRef = ""
    /\ loading = {}
    /\ running = Null
    /\ events = 0
    /\ isSweepRunning = FALSE
    /\ hiddenCanvas = [width |-> 0, height |-> 0, data |-> <<>>]  \* not drawn on
    /\ consoleTable = Null
    /\ download = Null
    /\ sweeping = Null

----------------------------------------------------------------------------
(* Fixed-point doubles *)

One == 1024
F32Step == 4
NaN == -1073741824
Inf == 1073741823
NegInf == -1073741823
Undef == -1073741822

Special == {NaN, Inf, NegInf, Undef}

IsFinite(x) == x \notin Special

\* ToNumber: undefined becomes NaN, a number is itself.
Num(x) == IF x = Undef THEN NaN ELSE x

Abs(x) == IF x < 0 THEN -x ELSE x

\* a / b for integers a and b > 0, rounded to the nearest integer.
RoundDiv(a, b) ==
    IF a >= 0 THEN (2 * a + b) \div (2 * b)
    ELSE -((2 * (-a) + b) \div (2 * b))

Neg(x) ==
    LET a == Num(x) IN
    IF a = NaN THEN NaN
    ELSE IF a = Inf THEN NegInf
    ELSE IF a = NegInf THEN Inf
    ELSE -a

Add(x, y) ==
    LET a == Num(x)
        b == Num(y)
    IN  IF a = NaN \/ b = NaN THEN NaN
        ELSE IF a = Inf THEN (IF b = NegInf THEN NaN ELSE Inf)
        ELSE IF a = NegInf THEN (IF b = Inf THEN NaN ELSE NegInf)
        ELSE IF b \in {Inf, NegInf} THEN b
        ELSE a + b

Sub(x, y) == Add(x, Neg(y))

Sign(a) == IF a = Inf THEN 1 ELSE IF a = NegInf THEN -1
           ELSE IF a > 0 THEN 1 ELSE IF a < 0 THEN -1 ELSE 0

Mul(x, y) ==
    LET a == Num(x)
        b == Num(y)
    IN  IF a = NaN \/ b = NaN THEN NaN
        ELSE IF a \in {Inf, NegInf} \/ b \in {Inf, NegInf} THEN
            (IF Sign(a) * Sign(b) = 0 THEN NaN
             ELSE IF Sign(a) * Sign(b) > 0 THEN Inf ELSE NegInf)
        ELSE RoundDiv(a * b, One)

Div(x, y) ==
    LET a == Num(x)
        b == Num(y)
    IN  IF a = NaN \/ b = NaN THEN NaN
        ELSE IF a \in {Inf, NegInf} THEN
            (IF b \in {Inf, NegInf} THEN NaN
             ELSE IF Sign(a) * (IF b < 0 THEN -1 ELSE 1) > 0 THEN Inf ELSE NegInf)
        ELSE IF b \in {Inf, NegInf} THEN 0
        ELSE IF b = 0 THEN
            (IF a = 0 THEN NaN ELSE IF a > 0 THEN Inf ELSE NegInf)
        ELSE IF b > 0 THEN RoundDiv(a * One, b)
        ELSE RoundDiv((-a) * One, -b)

\* x < y as JavaScript compares numbers: false when either side is NaN.
Lt(x, y) ==
    LET a == Num(x)
        b == Num(y)
    IN  a # NaN /\ b # NaN /\ a < b

\* The integer n as a double.
FromInt(n) == n * One

\* A store into a Float32Array: the nearest float32, NaN for a non-number.
Fround(x) ==
    LET a == Num(x) IN
    IF a \in {NaN, Inf, NegInf} THEN a
    ELSE RoundDiv(a, F32Step) * F32Step

\* An array built element by element, held as its elements.
Arr(f) == f \o <<>>

\* a[i] of a JavaScript array (0-based): undefined outside 0..length-1.
At(a, i) == IF i >= 0 /\ i < Len(a) THEN a[i + 1] ELSE Undef

\* ceil(a / b) for a >= 0, b > 0: the number of integers i >= 0 with i < a / b.
CeilDiv(a, b) == (a + b - 1) \div b

----------------------------------------------------------------------------
(* lib/imageUtils: the block partitioner *)

\* extractBlocksJS with the two coordinates inside a block exchanged.
extractBlocksJS_swapXY(gray, width, height, B) ==
    LET nrows == IF B > 0 THEN CeilDiv(height, B) ELSE 0
        ncols == IF B > 0 THEN CeilDiv(width, B) ELSE 0
        block(by, bx) ==
            [idx \in 1..(B * B) |->
                LET x == (idx - 1) \div B
                    y == (idx - 1) % B
                IN  At(gray, (by * B + y) * width + bx * B + x)]
    IN  [blocks |-> [bi \in 1..(nrows * ncols) |->
                        block((bi - 1) \div ncols, (bi - 1) % ncols)],
         shape |-> [nrows |-> nrows, ncols |-> ncols, B |-> B]]

\* The loops "for (by = 0; by < height / B; by++)" run CeilDiv(height, B)
\* times; shape.nrows and shape.ncols are kept as these counts.
extractBlocksJS(gray, width, height, B) ==
    LET nrows == IF B > 0 THEN CeilDiv(height, B) ELSE 0
        ncols == IF B > 0 THEN CeilDiv(width, B) ELSE 0
        d == B * B
        block(by, bx) ==
            [idx \in 1..d |->
                LET y == (idx - 1) \div B
                    x == (idx - 1) % B
                    gx == bx * B + x
                    gy == by * B + y
                IN  At(gray, gy * width + gx)]
    IN  [blocks |-> [bi \in 1..(nrows * ncols) |->
                        block((bi - 1) \div ncols, (bi - 1) % ncols)],
         shape |-> [nrows |-> nrows, ncols |-> ncols, B |-> B]]

\* The t-th write (t = 0, 1, ...) of reconstructFromBlocksJS, in loop order:
\* the position it writes ...
ReconWritePos(shape, width, t) ==
    LET B == shape.B
        d == B * B
        bi == t \div d
        idx == t % d
        by == bi \div shape.ncols
        bx == bi % shape.ncols
        gx == bx * B + (idx % B)
        gy == by * B + (idx \div B)
    IN  gy * width + gx

\* ... and the value it stores, block[idx] of blocks[bi].
ReconWriteVal(blocks, shape, t) ==
    LET d == shape.B * shape.B
    IN  At(blocks[(t \div d) + 1], t % d)

ReconWriteCount(shape) == shape.nrows * shape.ncols * shape.B * shape.B

\* The writes that land on position p (0-based).
ReconWritesTo(shape, width, p) ==
    {t \in 0..(ReconWriteCount(shape) - 1) : ReconWritePos(shape, width, t) = p}

\* A call that returns v, and a call that throws.
Return(v) == [threw |-> FALSE, error |-> "", value |-> v]
Throw(msg) == [threw |-> TRUE, error |-> msg, value |-> <<>>]

\* The Float32Array starts as zeros; a write outside it is dropped; the last
\* write to a position stands and is rounded to float32.
reconstructGray(blocks, shape, width, height) ==
    LET last(S) == CHOOSE t \in S : \A u \in S : u <= t
    IN  [p \in 1..(width * height) |->
            LET S == ReconWritesTo(shape, width, p - 1)
            IN  IF S = {} THEN 0
                ELSE Fround(ReconWriteVal(blocks, shape, last(S)))]

\* Reading block[idx] of a blocks[bi] past the end of blocks throws.
reconstructFromBlocksJS(blocks, shape, width, height) ==
    IF ReconWriteCount(shape) > 0 /\ shape.nrows * shape.ncols > Len(blocks)
    THEN Throw("TypeError")
    ELSE Return(reconstructGray(blocks, shape, width, height))

----------------------------------------------------------------------------
(* Bounds of the checked instances *)

MaxCells == 8       \* a grid has at most MaxCells samples

\* Sample values a Float32Array of luminances holds: black and white.
BlackWhite == {0, One}

Grids(w, h) == [1..(w * h) -> BlackWhite]

----------------------------------------------------------------------------
(* Partition round trip: extractBlocksJS, then reconstructFromBlocksJS *)

PartitionArgs ==
    UNION {
        {[gray |-> g, width |-> w, height |-> h, B |-> b] : g \in Grids(w, h)} :
            <<w, h, b>> \in {t \in (1..MaxCells) \X (1..MaxCells) \X (1..MaxCells) :
                                /\ t[1] * t[2] <= MaxCells
                                /\ t[1] % t[3] = 0
                                /\ t[2] % t[3] = 0}}

NoShape == [nrows |-> 0, ncols |-> 0, B |-> 0]

InitPartition ==
    /\ pc = "start"
    /\ arg \in PartitionArgs
    /\ ret = [blocks |-> <<>>, shape |-> NoShape, gray |-> Return(<<>>)]
    /\ AppStart

CallExtract ==
    /\ pc = "start"
    /\ LET e == extractBlocksJS(arg.gray, arg.width, arg.height, arg.B)
       IN  ret' = [ret EXCEPT !.blocks = e.blocks, !.shape = e.shape]
    /\ pc' = "extracted"
    /\ UNCHANGED <<arg, appVars>>

CallReconstruct ==
    /\ pc = "extracted"
    /\ ret' = [ret EXCEPT !.gray =
                  reconstructFromBlocksJS(ret.blocks, ret.shape,
                                          arg.width, arg.height)]
    /\ pc' = "reconstructed"
    /\ UNCHANGED <<arg, appVars>>

NextPartition == CallExtract \/ CallReconstruct

SpecPartition == InitPartition /\ [][NextPartition]_vars

\* C1: for a block-aligned grid, reconstructing the extracted blocks gives the
\* grid back element for element: no call throws, each of the W*H positions is
\* written exactly once, and the value written there is the value read there.
C1_RoundTrip ==
    pc = "reconstructed" =>
        /\ ~ret.gray.threw
        /\ ret.gray.value = arg.gray
        /\ Len(ret.blocks) = (arg.width \div arg.B) * (arg.height \div arg.B)
        /\ \A p \in 0..(arg.width * arg.height - 1) :
              LET S == ReconWritesTo(ret.shape, arg.width, p)
              IN  /\ Cardinality(S) = 1
                  /\ \A t \in S : ReconWriteVal(ret.blocks, ret.shape, t) = arg.gray[p + 1]

\* A grid of several blocks of several samples, not symmetric, taken apart and
\* put together again.
C1_Witness ==
    /\ pc = "reconstructed"
    /\ arg.B = 2
    /\ arg.width = 4
    /\ Len(ret.blocks) = 2
    /\ arg.gray = <<0, One, One, 0, One, 0, One, One>>
    /\ ret.gray.value = arg.gray

----------------------------------------------------------------------------
(* lib/transforms.js: keepTopK *)

\* Math.abs
AbsJS(x) ==
    LET a == Num(x) IN
    IF a = NaN THEN NaN ELSE IF a \in {Inf, NegInf} THEN Inf ELSE Abs(a)

\* a === b for two values that are numbers or undefined.
StrictEq(a, b) == a = b /\ a # NaN

\* The sequence s without its i-th element.
RemoveAt(s, i) == [j \in 1..(Len(s) - 1) |-> IF j < i THEN s[j] ELSE s[j + 1]]

\* v.slice().sort((a, b) => b - a) for an array of finite numbers.
RECURSIVE SortDesc(_)
SortDesc(s) ==
    IF Len(s) = 0 THEN <<>>
    ELSE LET i == CHOOSE i \in 1..Len(s) : \A j \in 1..Len(s) : s[j] <= s[i]
         IN  <<s[i]>> \o SortDesc(RemoveAt(s, i))

\* One pass of the loop over the rows of Y, lines 166..177.
keepTopKRow(row, k) ==
    LET m == Len(row)
        mags == [j \in 1..m |-> AbsJS(row[j])]
        sorted == SortDesc(mags)
        thresh == At(sorted, k - 1)
    IN  [j \in 1..m |->
            IF \/ Lt(AbsJS(row[j]), thresh)
               \/ (j - 1 >= k /\ StrictEq(AbsJS(row[j]), thresh))
            THEN 0
            ELSE row[j]]

keepTopK(coeffs, k) ==
    LET numBlocks == Len(coeffs)
        m == Len(coeffs[1])
    IN  IF k >= m THEN coeffs
        ELSE [i \in 1..numBlocks |-> keepTopKRow(coeffs[i], k)]

----------------------------------------------------------------------------
(* Coefficient matrices of the checked instances *)

MaxCoefCells == 4   \* a coefficient matrix has at most MaxCoefCells entries

CoefLevels == {-One, 0, One \div 2, One}

\* The numBlocks x m matrices over the set S.
Matrices(numBlocks, m, S) == [1..numBlocks -> [1..m -> S]]

CoefShapes == {t \in (1..MaxCoefCells) \X (1..MaxCoefCells) :
                  t[1] * t[2] <= MaxCoefCells}

CoefMatrices == UNION {Matrices(t[1], t[2], CoefLevels) : t \in CoefShapes}

Cols(M) == Len(M[1])

----------------------------------------------------------------------------
(* keepTopK applied to a coefficient matrix *)

InitTopK ==
    /\ pc = "start"
    /\ arg \in {[coeffs |-> c, k |-> k] :
                    c \in CoefMatrices, k \in 0..(MaxCoefCells + 1)}
    /\ ret = <<>>
    /\ AppStart

CallKeepTopK ==
    /\ pc = "start"
    /\ ret' = keepTopK(arg.coeffs, arg.k)
    /\ pc' = "done"
    /\ UNCHANGED <<arg, appVars>>

NextTopK == CallKeepTopK

SpecTopK == InitTopK /\ [][NextTopK]_vars

NonZeroCount(row) == Cardinality({j \in 1..Len(row) : row[j] # 0})

\* C2: keepTopK(coeffs, m) is coeffs entry for entry, and keepTopK(coeffs, 0)
\* has the shape of coeffs and only zero entries.
C2_TopKIdentityAndZero ==
    pc = "done" =>
        /\ arg.k = Cols(arg.coeffs) => ret = arg.coeffs
        /\ arg.k = 0 =>
              /\ Len(ret) = Len(arg.coeffs)
              /\ \A i \in 1..Len(ret) :
                    /\ Len(ret[i]) = Cols(arg.coeffs)
                    /\ \A j \in 1..Len(ret[i]) : ret[i][j] = 0

\* C3: for 1 <= k < m every row of keepTopK(coeffs, k) has at most k nonzero
\* entries, every entry it keeps is the input's, and no entry it zeroes was
\* larger in magnitude than one it keeps.
C3_TopKRetainsKLargest ==
    (pc = "done" /\ 1 <= arg.k /\ arg.k < Cols(arg.coeffs)) =>
        \A i \in 1..Len(ret) :
            /\ NonZeroCount(ret[i]) <= arg.k
            /\ \A j \in 1..Len(ret[i]) :
                  ret[i][j] # 0 => ret[i][j] = arg.coeffs[i][j]
            /\ \A j, l \in 1..Len(ret[i]) :
                  (ret[i][j] = 0 /\ ret[i][l] # 0) =>
                      Abs(arg.coeffs[i][j]) <= Abs(arg.coeffs[i][l])

----------------------------------------------------------------------------
(* lib/transforms.js: psnrJS *)

\* Math.log10 of a double, by the shift-and-square binary logarithm.
Log10Of2 == 308     \* log10(2) = 0.30103 in units of 1 / One

RECURSIVE Log2Floor(_)
Log2Floor(v) ==     \* the integer e with 2^e <= v / One < 2^(e + 1), v > 0
    IF v >= 2 * One THEN 1 + Log2Floor(v \div 2)
    ELSE IF v < One THEN Log2Floor(v * 2) - 1
    ELSE 0

RECURSIVE Pow2(_)
Pow2(e) == IF e = 0 THEN 1 ELSE 2 * Pow2(e - 1)

RECURSIVE Log2Frac(_, _)
Log2Frac(y, bit) == \* log2(y / One) for One <= y < 2 * One, down to one unit
    IF bit = 0 THEN 0
    ELSE LET y2 == RoundDiv(y * y, One)
         IN  IF y2 >= 2 * One
             THEN bit + Log2Frac(RoundDiv(y2, 2), bit \div 2)
             ELSE Log2Frac(y2, bit \div 2)

Log10(x) ==
    LET a == Num(x) IN
    IF a = NaN \/ a = NegInf THEN NaN
    ELSE IF a = Inf THEN Inf
    ELSE IF a < 0 THEN NaN
    ELSE IF a = 0 THEN NegInf
    ELSE LET e == Log2Floor(a)
             y == IF e >= 0 THEN RoundDiv(a, Pow2(e)) ELSE a * Pow2(-e)
             yy == IF y >= 2 * One THEN 2 * One - 1 ELSE y
         IN  Mul(FromInt(e) + Log2Frac(yy, One \div 2), Log10Of2)

\* s[lo] + ... + s[hi]; fixed-point addition is exact, so the order of the
\* additions does not change the sum.
RECURSIVE SumRange(_, _, _)
SumRange(s, lo, hi) ==
    IF lo > hi THEN 0
    ELSE IF lo = hi THEN Num(s[lo])
    ELSE LET mid == (lo + hi) \div 2
         IN  Add(SumRange(s, lo, mid), SumRange(s, mid + 1, hi))

SumSeq(s) == LET t == Arr(s) IN SumRange(t, 1, Len(t))

\* Lines 13..19: the mean of the squared differences over x.length samples.
MeanSquaredError(x, x_hat) ==
    LET n == Len(x)
        sq == [i \in 1..n |->
                  LET diff == Sub(At(x, i - 1), At(x_hat, i - 1))
                  IN  Mul(diff, diff)]
    IN  Div(SumSeq(sq), FromInt(n))

PsnrSentinel == 99

\* psnrJS with the test for a zero error left out.
psnrJS_noSentinel(x, x_hat, maxVal) ==
    Mul(FromInt(10), Log10(Div(Mul(maxVal, maxVal), MeanSquaredError(x, x_hat))))

psnrJS(x, x_hat, maxVal) ==
    LET mse == MeanSquaredError(x, x_hat)
    IN  IF StrictEq(mse, 0) THEN FromInt(PsnrSentinel)
        ELSE Mul(FromInt(10), Log10(Div(Mul(maxVal, maxVal), mse)))

----------------------------------------------------------------------------
(* psnrJS applied to two sample arrays of one length *)

MaxSamples == 3     \* psnrJS is applied to at most MaxSamples samples

\* Samples: black, the float32 next to black, white.
SampleLevels == {0, F32Step, One}

SampleArrays == UNION {[1..n -> SampleLevels] : n \in 1..MaxSamples}

InitPsnr ==
    /\ pc = "start"
    /\ arg \in {[x |-> x, x_hat |-> y] :
                    <<x, y>> \in {t \in SampleArrays \X SampleArrays :
                                     Len(t[1]) = Len(t[2])}}
    /\ ret = 0
    /\ AppStart

CallPsnr ==
    /\ pc = "start"
    /\ ret' = psnrJS(arg.x, arg.x_hat, One)
    /\ pc' = "done"
    /\ UNCHANGED <<arg, appVars>>

NextPsnr == CallPsnr

SpecPsnr == InitPsnr /\ [][NextPsnr]_vars

\* C4: when the mean squared error of x and x_hat is exactly 0, and so
\* whenever x_hat is x, psnrJS returns exactly 99.0, a finite number.
C4_PsnrSentinel ==
    pc = "done" =>
        /\ (\A i \in 1..Len(arg.x) : Sub(arg.x[i], arg.x_hat[i]) = 0) =>
              ret = 99 * One
        /\ MeanSquaredError(arg.x, arg.x_hat) = 0 =>
              (ret = 99 * One /\ IsFinite(ret))
        /\ ret # Inf

\* psnrJS has compared a non-constant array with itself.
C4_Witness ==
    /\ pc = "done"
    /\ arg.x = <<0, One, F32Step>>
    /\ arg.x_hat = arg.x
    /\ ret = 99 * One

----------------------------------------------------------------------------
(* The numeric library as the core uses it *)

\* numeric.rep([r, c], v)
Rep(r, c, v) == Arr([i \in 1..r |-> Arr([j \in 1..c |-> v])])

\* numeric.transpose(M): M[0].length rows of M.length entries.
Transpose(M) ==
    Arr([j \in 1..Len(M[1]) |-> Arr([i \in 1..Len(M) |-> At(M[i], j - 1)])])

\* numeric.mul(scale, M) for a number and a matrix.
MulScalar(scale, M) ==
    Arr([i \in 1..Len(M) |-> Arr([j \in 1..Len(M[i]) |-> Mul(scale, M[i][j])])])

\* numeric.dot(x, M) for an array x and a matrix M (numeric.dotVM): entry k is
\* the sum over j < x.length of x[j] * M[j][k]; reading a row M[j] that M
\* does not have throws.
DotVM(x, M) ==
    IF Len(x) = 0 \/ Len(M) < Len(x) THEN Throw("TypeError")
    ELSE Return(Arr([k \in 1..Len(M[1]) |->
                    SumSeq([j \in 1..Len(x) |-> Mul(x[j], At(M[j], k - 1))])]))

\* floor(sqrt(n)) for an integer n >= 0, between lo and hi.
RECURSIVE ISqrtIn(_, _, _)
ISqrtIn(n, lo, hi) ==
    IF lo >= hi THEN lo
    ELSE LET mid == (lo + hi + 1) \div 2
         IN  IF mid * mid <= n THEN ISqrtIn(n, mid, hi) ELSE ISqrtIn(n, lo, mid - 1)

\* Math.sqrt of a double: the nearest double to the root.
Sqrt(x) ==
    LET a == Num(x) IN
    IF a = NaN \/ a = NegInf THEN NaN
    ELSE IF a = Inf THEN Inf
    ELSE IF a < 0 THEN NaN
    ELSE LET n == a * One
             r == ISqrtIn(n, 0, 32768)
         IN  IF (r + 1) * (r + 1) - n < n - r * r THEN r + 1 ELSE r

\* a & b on 32-bit integers, for |a|, |b| < 2^30.
RECURSIVE BitAndNat(_, _)
BitAndNat(a, b) ==
    IF a = 0 \/ b = 0 THEN 0
    ELSE 2 * BitAndNat(a \div 2, b \div 2) + (IF a % 2 = 1 /\ b % 2 = 1 THEN 1 ELSE 0)

BitAnd(a, b) ==
    BitAndNat(a % 1073741824, b % 1073741824)
        + (IF a < 0 /\ b < 0 THEN -1073741824 ELSE 0)

----------------------------------------------------------------------------
(* lib/transforms.js: hadamardMatrixJS *)

HadamardError == "N must be power of 2 for Hadamard"

\* Line 38 with the test of the lowest bit only.
HadamardGuardFails_oddOnly(N) == N % 2 # 0 /\ N # 1

\* Line 38: the guard that throws.
HadamardGuardFails(N) == BitAnd(N, N - 1) # 0

\* buildHad with the sign of the fourth quadrant not flipped.
RECURSIVE buildHad_noSign(_)
buildHad_noSign(n) ==
    IF n = 1 THEN Return(<<<<FromInt(1)>>>>)
    ELSE IF n <= 0 \/ n % 2 # 0 THEN Throw("RangeError")
    ELSE LET small == buildHad_noSign(n \div 2)
             h == n \div 2
         IN  IF small.threw THEN small
             ELSE Return(Arr([i \in 1..n |-> Arr([j \in 1..n |->
                      small.value[((i - 1) % h) + 1][((j - 1) % h) + 1]])]))

\* Lines 41..55.  H starts as n x n zeros and the double loop writes each of
\* its four quadrants from Hsmall.  For an n that halving never brings to 1
\* the recursion does not end: the call stack overflows (RangeError).
RECURSIVE buildHad(_)
buildHad(n) ==
    IF n = 1 THEN Return(<<<<FromInt(1)>>>>)
    ELSE IF n <= 0 \/ n % 2 # 0 THEN Throw("RangeError")
    ELSE LET small == buildHad(n \div 2)
             h == n \div 2
         IN  IF small.threw THEN small
             ELSE Return(Arr([i \in 1..n |-> Arr([j \in 1..n |->
                      LET v == small.value[((i - 1) % h) + 1][((j - 1) % h) + 1]
                      IN  IF i > h /\ j > h THEN Neg(v) ELSE v])]))

\* Lines 57..58: scale = 1 / Math.sqrt(N); H = numeric.mul(scale, H).
HadamardScale(N, H) == MulScalar(Div(FromInt(1), Sqrt(FromInt(N))), H)

hadamardMatrixJS(N) ==
    IF HadamardGuardFails(N) THEN Throw(HadamardError)
    ELSE LET H == buildHad(N)
         IN  IF H.threw THEN H ELSE Return(HadamardScale(N, H.value))

----------------------------------------------------------------------------
(* hadamardMatrixJS, step by step, for every size a block may have *)

MaxN == 64      \* the largest size asked for

InitHadamard ==
    /\ pc = "start"
    /\ arg \in {[N |-> n] : n \in 1..MaxN}
    /\ ret = [raw |-> <<>>, result |-> Return(<<>>)]
    /\ AppStart

\* Line 38..40
HadamardGuard ==
    /\ pc = "start"
    /\ IF HadamardGuardFails(arg.N)
       THEN /\ pc' = "threw"
            /\ ret' = [ret EXCEPT !.result = Throw(HadamardError)]
       ELSE /\ pc' = "guarded"
            /\ UNCHANGED ret
    /\ UNCHANGED <<arg, appVars>>

\* Line 56
HadamardBuild ==
    /\ pc = "guarded"
    /\ LET H == buildHad(arg.N)
       IN  IF H.threw
           THEN /\ pc' = "threw"
                /\ ret' = [ret EXCEPT !.result = H]
           ELSE /\ pc' = "built"
                /\ ret' = [ret EXCEPT !.raw = H.value]
    /\ UNCHANGED <<arg, appVars>>

\* Lines 57..59
HadamardReturn ==
    /\ pc = "built"
    /\ ret' = [ret EXCEPT !.result = Return(HadamardScale(arg.N, ret.raw))]
    /\ pc' = "returned"
    /\ UNCHANGED <<arg, appVars>>

NextHadamard == HadamardGuard \/ HadamardBuild \/ HadamardReturn

SpecHadamard == InitHadamard /\ [][NextHadamard]_vars

IsPowerOfTwo(n) == \E e \in 0..30 : n = Pow2(e)

IsSquare(M, n) == Len(M) = n /\ \A i \in 1..n : Len(M[i]) = n

\* C5: for N >= 1 not a power of two hadamardMatrixJS throws its error
\* before it builds anything, and no matrix is returned; for N a power of two
\* it returns an N x N matrix and does not throw.
C5_HadamardPowerOfTwoOnly ==
    /\ (pc # "start" /\ ~IsPowerOfTwo(arg.N)) =>
          /\ pc = "threw"
          /\ ret.result = Throw(HadamardError)
          /\ ret.raw = <<>>
    /\ (pc # "start" /\ IsPowerOfTwo(arg.N)) =>
          /\ pc \in {"guarded", "built", "returned"}
          /\ ~ret.result.threw
          /\ pc = "returned" => IsSquare(ret.result.value, arg.N)

\* A size with several bits set, even, has been refused.
C5_Witness ==
    /\ pc = "threw"
    /\ arg.N = 12
    /\ ret.result.error = HadamardError

RowDot(M, a, b) == SumSeq([j \in 1..Len(M[a]) |-> Mul(M[a][j], M[b][j])])

OrthoTol == One \div 256

\* M * M^T is the identity within OrthoTol
IsOrthonormal(M) ==
    \A a, b \in 1..Len(M) :
        Abs(RowDot(M, a, b) - (IF a = b THEN One ELSE 0)) <= OrthoTol

\* C6: for N a power of two the matrix the doubling builds has only entries
\* +1 and -1, distinct rows with dot product 0 and rows of squared norm N, and
\* the matrix returned, scaled by 1 / sqrt(N), has basis * basis^T = identity.
C6_HadamardOrthonormal ==
    /\ pc \in {"built", "returned"} =>
          /\ IsSquare(ret.raw, arg.N)
          /\ \A i, j \in 1..arg.N : ret.raw[i][j] \in {One, -One}
          /\ \A a, b \in 1..arg.N :
                RowDot(ret.raw, a, b) = (IF a = b THEN FromInt(arg.N) ELSE 0)
    /\ pc = "returned" =>
          /\ IsSquare(ret.result.value, arg.N)
          /\ IsOrthonormal(ret.result.value)

\* The 8 x 8 matrix has been built by three doublings and returned scaled.
C6_Witness ==
    /\ pc = "returned"
    /\ arg.N = 8
    /\ ret.raw[8] = <<One, -One, -One, One, -One, One, One, -One>>
    /\ ret.result.value[2][2] = -Div(One, Sqrt(FromInt(8)))

----------------------------------------------------------------------------
(* lib/transforms.js: dctMatrixJS, kron2DFrom1DJS *)

Pi == 3217      \* Math.PI in units of 1 / One

\* cos(x) for 0 <= x <= Pi / 2, by its series up to x^8.
CosSeries(x) ==
    LET x2 == Mul(x, x)
        x4 == Mul(x2, x2)
        x6 == Mul(x4, x2)
        x8 == Mul(x4, x4)
    IN  One - RoundDiv(x2, 2) + RoundDiv(x4, 24) - RoundDiv(x6, 720)
            + RoundDiv(x8, 40320)

\* Math.cos of a double
Cos(x) ==
    LET a == Num(x) IN
    IF ~IsFinite(a) THEN NaN
    ELSE LET r == Abs(a) % (2 * Pi)
             s == IF r > Pi THEN 2 * Pi - r ELSE r
         IN  IF 2 * s > Pi THEN -CosSeries(Pi - s) ELSE CosSeries(s)

\* Line 28
DctAlpha(k, N) ==
    IF k = 0 THEN Sqrt(Div(FromInt(1), FromInt(N)))
    ELSE Sqrt(Div(FromInt(2), FromInt(N)))

dctMatrixJS(N) ==
    Arr([k1 \in 1..N |-> Arr([n1 \in 1..N |->
        LET k == k1 - 1
            n == n1 - 1
        IN  Mul(DctAlpha(k, N),
                Cos(Div(Mul(Mul(Pi, FromInt(2 * n + 1)), FromInt(k)),
                        Mul(FromInt(2), FromInt(N)))))])])

\* kron2DFrom1DJS with the factors of one entry taken from one row and column.
kron2DFrom1DJS_sameEntry(T1d) ==
    LET N == Len(T1d)
    IN  Arr([r \in 1..(N * N) |-> Arr([c \in 1..(N * N) |->
            Mul(At(T1d[((r - 1) \div N) + 1], (c - 1) \div N),
                At(T1d[((r - 1) \div N) + 1], (c - 1) % N))])])

\* result[i * N + p][j * N + q] = T1d[i][j] * T1d[p][q]
kron2DFrom1DJS(T1d) ==
    LET N == Len(T1d)
    IN  Arr([r \in 1..(N * N) |-> Arr([c \in 1..(N * N) |->
            Mul(At(T1d[((r - 1) \div N) + 1], (c - 1) \div N),
                At(T1d[((r - 1) % N) + 1], (c - 1) % N))])])

----------------------------------------------------------------------------
(* lib/transforms.js: transformBlocksJS, inverseTransformBlocksJS *)

NoMean == <<>>      \* meanVec = null

\* The first element of S, in order of index, that threw; S is not empty.
FirstThrow(calls) ==
    calls[CHOOSE i \in 1..Len(calls) :
              calls[i].threw /\ \A j \in 1..(i - 1) : ~calls[j].threw]

\* Lines 132..135: x = blocksFlat[i].slice(), less meanVec over j < d.
Centered(block, d, meanVec) ==
    IF meanVec = NoMean THEN block
    ELSE Arr([j \in 1..Len(block) |->
                IF j <= d THEN Sub(block[j], At(meanVec, j - 1)) ELSE block[j]])

transformBlocksJS(blocksFlat, T, meanVec) ==
    IF Len(blocksFlat) = 0 THEN Throw("TypeError")
    ELSE
    LET numBlocks == Len(blocksFlat)
        d == Len(blocksFlat[1])
        m == Len(T)
        TT == Transpose(T)
        ys == Arr([i \in 1..numBlocks |->
                      DotVM(Centered(blocksFlat[i], d, meanVec), TT)])
    IN  IF \E i \in 1..numBlocks : ys[i].threw THEN FirstThrow(ys)
        ELSE Return(Arr([i \in 1..numBlocks |->
                        Arr([j \in 1..m |-> At(ys[i].value, j - 1)])]))

\* Lines 149..151: x[j] += meanVec[j] over j < d.
Uncentered(x, d, meanVec) ==
    IF meanVec = NoMean THEN x
    ELSE Arr([j \in 1..(IF d > Len(x) THEN d ELSE Len(x)) |->
                IF j <= d THEN Add(At(x, j - 1), At(meanVec, j - 1)) ELSE x[j]])

inverseTransformBlocksJS(coeffs, T, meanVec) ==
    LET numBlocks == Len(coeffs)
        d == Len(T[1])
        xs == Arr([i \in 1..numBlocks |-> DotVM(coeffs[i], T)])
    IN  IF \E i \in 1..numBlocks : xs[i].threw THEN FirstThrow(xs)
        ELSE Return(Arr([i \in 1..numBlocks |->
                        Uncentered(xs[i].value, d, meanVec)]))

----------------------------------------------------------------------------
(* Forward and inverse transform of a block collection with a fixed basis *)

MaxEdge == 4        \* blocks are at most MaxEdge x MaxEdge
MaxBlocks == 2      \* a collection of patterned blocks has at most MaxBlocks
DenseSamples == 4   \* every black-and-white block of up to DenseSamples samples

Impulse(d, p) == [j \in 1..d |-> IF j = p THEN One ELSE 0]
Ramp(d) == [j \in 1..d |-> RoundDiv((j - 1) * One, F32Step * d) * F32Step]
Bits(d, c) == [j \in 1..d |-> IF (c \div Pow2(j - 1)) % 2 = 1 THEN One ELSE 0]

\* The blocks of d samples tried: for d <= DenseSamples every black-and-white
\* block and the ramp; for larger d the block with one white sample at each
\* position, the two flat blocks and the ramp.
PatternCount(d) == IF d <= DenseSamples THEN Pow2(d) + 1 ELSE d + 3

Pattern(d, c) ==
    IF d <= DenseSamples
    THEN (IF c < Pow2(d) THEN Bits(d, c) ELSE Ramp(d))
    ELSE (IF c < d THEN Impulse(d, c + 1)
          ELSE IF c = d THEN [j \in 1..d |-> 0]
          ELSE IF c = d + 1 THEN [j \in 1..d |-> One]
          ELSE Ramp(d))

\* Collections of 1..MaxBlocks blocks: consecutive patterns from each start.
BlockCollections(d) ==
    {[i \in 1..n |-> Pattern(d, (c + i - 1) % PatternCount(d))] :
        n \in 1..MaxBlocks, c \in 0..(PatternCount(d) - 1)}

Basis1D(kind, N) ==
    IF kind = "dct" THEN Return(dctMatrixJS(N)) ELSE hadamardMatrixJS(N)

InitTransform ==
    /\ pc = "start"
    /\ arg \in UNION {
           {[kind |-> kind, N |-> n, blocks |-> b] :
                kind \in {"dct", "had"}, b \in BlockCollections(n * n)} :
           n \in 1..MaxEdge}
    /\ ret = [T |-> Return(<<>>), coeffs |-> Return(<<>>), blocks |-> Return(<<>>)]
    /\ AppStart

\* T = kron2DFrom1DJS(dctMatrixJS(B)) or kron2DFrom1DJS(hadamardMatrixJS(B))
BuildBasis ==
    /\ pc = "start"
    /\ LET b == Basis1D(arg.kind, arg.N)
       IN  IF b.threw
           THEN /\ ret' = [ret EXCEPT !.T = b]
                /\ pc' = "threw"
           ELSE /\ ret' = [ret EXCEPT !.T = Return(kron2DFrom1DJS(b.value))]
                /\ pc' = "basis"
    /\ UNCHANGED <<arg, appVars>>

CallTransform ==
    /\ pc = "basis"
    /\ ret' = [ret EXCEPT !.coeffs =
                  transformBlocksJS(arg.blocks, ret.T.value, NoMean)]
    /\ pc' = "transformed"
    /\ UNCHANGED <<arg, appVars>>

CallInverse ==
    /\ pc = "transformed"
    /\ ~ret.coeffs.threw
    /\ ret' = [ret EXCEPT !.blocks =
                  inverseTransformBlocksJS(ret.coeffs.value, ret.T.value, NoMean)]
    /\ pc' = "inverted"
    /\ UNCHANGED <<arg, appVars>>

NextTransform == BuildBasis \/ CallTransform \/ CallInverse

SpecTransform == InitTransform /\ [][NextTransform]_vars

RoundTripTol == One \div 64

\* C7: with T the Kronecker square of the cosine or the Walsh/Hadamard
\* basis and no mean vector, the inverse transform of the transform of a block
\* collection is that collection, block by block and sample by sample, within
\* the rounding tolerance.
C7_TransformRoundTrip ==
    /\ pc = "transformed" =>
          /\ ~ret.coeffs.threw
          /\ Len(ret.coeffs.value) = Len(arg.blocks)
          /\ \A i \in 1..Len(arg.blocks) : Len(ret.coeffs.value[i]) = arg.N * arg.N
    /\ pc = "inverted" =>
          /\ ~ret.blocks.threw
          /\ Len(ret.blocks.value) = Len(arg.blocks)
          /\ \A i \in 1..Len(arg.blocks) :
                /\ Len(ret.blocks.value[i]) = arg.N * arg.N
                /\ \A j \in 1..(arg.N * arg.N) :
                      /\ IsFinite(ret.blocks.value[i][j])
                      /\ Abs(ret.blocks.value[i][j] - arg.blocks[i][j]) <= RoundTripTol

\* Two different 4 x 4 blocks have gone through the cosine basis and back.
C7_Witness ==
    /\ pc = "inverted"
    /\ arg.kind = "dct"
    /\ arg.N = 4
    /\ arg.blocks = <<[j \in 1..16 |-> One], Ramp(16)>>
    /\ ret.coeffs.value[1] # ret.coeffs.value[2]
    /\ ~ret.blocks.threw

----------------------------------------------------------------------------
(* lib/transforms.js: energyCompactionCurveJS *)

\* 1e-12, far below one unit: the smallest positive double of the model.
Epsilon == 1

\* Lines 195..198 for one row: the squares sorted descending, their total.
SortedSquares(row) == SortDesc(Arr([j \in 1..Len(row) |-> Mul(row[j], row[j])]))

TotalEnergy(sq) == Add(SumSeq(sq), Epsilon)

\* Lines 204..205: the sum of the first k sorted squares; sortedSq[i][j] is
\* undefined for j >= m.
PartialEnergy(sq, k) == SumSeq([j \in 1..k |-> At(sq, j - 1)])

\* maxK = 0 stands for every falsy maxK (0, undefined): line 187.
energyCompactionCurveJS(coeffs, maxK) ==
    LET numBlocks == Len(coeffs)
        m == Len(coeffs[1])
        top == IF maxK = 0 THEN m ELSE maxK
        sortedSq == Arr([i \in 1..numBlocks |-> SortedSquares(coeffs[i])])
        totalEnergy == Arr([i \in 1..numBlocks |-> TotalEnergy(sortedSq[i])])
    IN  [ks |-> [k \in 1..top |-> k],
         avgFrac |-> Arr([k \in 1..top |->
             Div(SumSeq([i \in 1..numBlocks |->
                            Div(PartialEnergy(sortedSq[i], k), totalEnergy[i])]),
                 FromInt(numBlocks))])]

----------------------------------------------------------------------------
(* energyCompactionCurveJS applied to a coefficient matrix *)

InitEnergy ==
    /\ pc = "start"
    /\ arg \in UNION {{[coeffs |-> c, maxK |-> k] : k \in 0..Cols(c)} :
                         c \in CoefMatrices}
    /\ ret = [ks |-> <<>>, avgFrac |-> <<>>]
    /\ AppStart

CallEnergy ==
    /\ pc = "start"
    /\ ret' = energyCompactionCurveJS(arg.coeffs, arg.maxK)
    /\ pc' = "done"
    /\ UNCHANGED <<arg, appVars>>

NextEnergy == CallEnergy

SpecEnergy == InitEnergy /\ [][NextEnergy]_vars

EnergyTol == One \div 64

\* C8: for every coefficient matrix, an all-zero row or not, the last point
\* of the curve up to k = m is 1.0 within the tolerance.
C8_EnergyEndsAtOne ==
    (pc = "done" /\ arg.maxK \in {0, Cols(arg.coeffs)}) =>
        /\ Len(ret.avgFrac) = Cols(arg.coeffs)
        /\ IsFinite(ret.avgFrac[Cols(arg.coeffs)])
        /\ Abs(ret.avgFrac[Cols(arg.coeffs)] - One) <= EnergyTol

----------------------------------------------------------------------------
(* lib/transforms.js: rateDistortionJS *)

\* Lines 236..239: a sample below 0 becomes 0, one above 1 becomes 1; both
\* comparisons are false for NaN, which stays.
Clamp01(v) ==
    IF Lt(v, 0) THEN 0
    ELSE IF Lt(One, v) THEN One
    ELSE v

\* The loop body without the clamp of lines 236..239.
RDIteration_noClamp(imgGray, width, height, coeffs, shape, T, meanVec, k, d) ==
    LET blocksRec == inverseTransformBlocksJS(keepTopK(coeffs, k), T, meanVec)
        grayRec == IF blocksRec.threw THEN blocksRec
                   ELSE reconstructFromBlocksJS(blocksRec.value, shape, width, height)
    IN  IF grayRec.threw THEN grayRec
        ELSE Return([grayRec |-> grayRec.value,
                     P |-> psnrJS(imgGray, grayRec.value, One),
                     rate |-> Div(FromInt(k), FromInt(d))])

\* Lines 233..242, one iteration of "for (const k of kValues)": grayRec is
\* the array as it is handed to psnrJS.
RDIteration(imgGray, width, height, coeffs, shape, T, meanVec, k, d) ==
    LET Yk == keepTopK(coeffs, k)
        blocksRec == inverseTransformBlocksJS(Yk, T, meanVec)
        grayRec == IF blocksRec.threw THEN blocksRec
                   ELSE reconstructFromBlocksJS(blocksRec.value, shape, width, height)
    IN  IF grayRec.threw THEN grayRec
        ELSE LET clamped == Arr([i \in 1..Len(grayRec.value) |->
                                    Clamp01(grayRec.value[i])])
             IN  Return([grayRec |-> clamped,
                         P |-> psnrJS(imgGray, clamped, One),
                         rate |-> Div(FromInt(k), FromInt(d))])

rateDistortionJS(imgGray, width, height, blocksFlat, shape, T, meanVec, kValues) ==
    IF Len(blocksFlat) = 0 THEN Throw("TypeError")
    ELSE
    LET d == Len(blocksFlat[1])
        coeffs == transformBlocksJS(blocksFlat, T, meanVec)
    IN  IF coeffs.threw THEN coeffs
        ELSE LET its == Arr([i \in 1..Len(kValues) |->
                            RDIteration(imgGray, width, height, coeffs.value,
                                        shape, T, meanVec, kValues[i], d)])
             IN  IF \E i \in 1..Len(kValues) : its[i].threw THEN FirstThrow(its)
                 ELSE Return([rates |-> Arr([i \in 1..Len(kValues) |-> its[i].value.rate]),
                              psnrs |-> Arr([i \in 1..Len(kValues) |-> its[i].value.P])])

----------------------------------------------------------------------------
(* rateDistortionJS on one row of blocks, one loop iteration per step *)

MaxRDEdge == 2      \* blocks are at most MaxRDEdge x MaxRDEdge
MaxKValues == 2     \* kValues has MaxKValues elements

\* The k tried for blocks of d samples: one coefficient, all but one, all.
KChoices(d) == {k \in {1, d - 1, d} : k >= 1}

KValueLists(d) == [1..MaxKValues -> KChoices(d)]

\* The rows of MaxBlocks blocks of d samples.
BlockRows(d) == {b \in BlockCollections(d) : Len(b) = MaxBlocks}

\* The image whose partition into B x B blocks is the row of blocks b.
RDShape(b, B) == [nrows |-> 1, ncols |-> Len(b), B |-> B]
RDWidth(b, B) == Len(b) * B
RDGray(b, B) == Arr(reconstructGray(b, RDShape(b, B), RDWidth(b, B), B))

InitRD ==
    /\ pc = "start"
    /\ arg \in UNION {
           {[kind |-> kind, N |-> n, blocks |-> b, kValues |-> ks] :
                kind \in {"dct", "had"}, b \in BlockRows(n * n),
                ks \in KValueLists(n * n)} :
           n \in 1..MaxRDEdge}
    /\ ret = [T |-> Return(<<>>), coeffs |-> Return(<<>>), i |-> 0,
              rates |-> <<>>, psnrs |-> <<>>, grayRec |-> <<>>,
              result |-> Return(<<>>)]
    /\ AppStart

RDBuildBasis ==
    /\ pc = "start"
    /\ LET b == Basis1D(arg.kind, arg.N)
       IN  IF b.threw
           THEN /\ ret' = [ret EXCEPT !.T = b, !.result = b]
                /\ pc' = "threw"
           ELSE /\ ret' = [ret EXCEPT !.T = Return(kron2DFrom1DJS(b.value))]
                /\ pc' = "basis"
    /\ UNCHANGED <<arg, appVars>>

\* Line 228
RDTransform ==
    /\ pc = "basis"
    /\ LET c == transformBlocksJS(arg.blocks, ret.T.value, NoMean)
       IN  /\ ret' = [ret EXCEPT !.coeffs = c,
                                 !.result = IF c.threw THEN c ELSE @]
           /\ pc' = IF c.threw THEN "threw" ELSE "loop"
    /\ UNCHANGED <<arg, appVars>>

\* Lines 232..243, the iteration for kValues[i]
RDIterate ==
    /\ pc = "loop"
    /\ ret.i < Len(arg.kValues)
    /\ LET it == RDIteration(RDGray(arg.blocks, arg.N),
                             RDWidth(arg.blocks, arg.N), arg.N,
                             ret.coeffs.value, RDShape(arg.blocks, arg.N),
                             ret.T.value, NoMean, arg.kValues[ret.i + 1],
                             Len(arg.blocks[1]))
       IN  IF it.threw
           THEN /\ ret' = [ret EXCEPT !.result = it]
                /\ pc' = "threw"
           ELSE /\ ret' = [ret EXCEPT !.i = @ + 1,
                                      !.rates = Append(@, it.value.rate),
                                      !.psnrs = Append(@, it.value.P),
                                      !.grayRec = it.value.grayRec]
                /\ pc' = "loop"
    /\ UNCHANGED <<arg, appVars>>

\* Line 245
RDReturn ==
    /\ pc = "loop"
    /\ ret.i = Len(arg.kValues)
    /\ ret' = [ret EXCEPT !.result =
                  Return([rates |-> ret.rates, psnrs |-> ret.psnrs])]
    /\ pc' = "done"
    /\ UNCHANGED <<arg, appVars>>

NextRD == RDBuildBasis \/ RDTransform \/ RDIterate \/ RDReturn

SpecRD == InitRD /\ [][NextRD]_vars

\* The reconstruction from the k largest coefficients before any clamping.
RawReconstruction(k) ==
    reconstructGray(
        inverseTransformBlocksJS(keepTopK(ret.coeffs.value, k),
                                 ret.T.value, NoMean).value,
        RDShape(arg.blocks, arg.N), RDWidth(arg.blocks, arg.N), arg.N)

Into01(v) == IF v < 0 THEN 0 ELSE IF v > One THEN One ELSE v

\* C10: rateDistortionJS yields one (rate, PSNR) pair per element of kValues,
\* in the order of kValues, also when k repeats or decreases; rates[i] is
\* kValues[i] / d for blocks of d samples; and the array handed to psnrJS for
\* each k holds the reconstruction with every sample clamped into [0, 1].
C10_RateDistortionPairs ==
    /\ pc = "threw" => ~IsPowerOfTwo(arg.N)
    /\ pc \in {"loop", "done"} =>
          LET d == arg.N * arg.N
              \* in the loop the pair just appended, at the return every pair
              checked == IF pc = "done" THEN 1..ret.i ELSE {ret.i} \ {0}
          IN  /\ Len(ret.rates) = ret.i
              /\ Len(ret.psnrs) = ret.i
              /\ ret.i <= Len(arg.kValues)
              /\ \A j \in checked :
                    LET k == arg.kValues[j]
                        raw == RawReconstruction(k)
                        clamped == [p \in 1..Len(raw) |-> Into01(raw[p])]
                    IN  /\ \A p \in 1..Len(raw) : IsFinite(raw[p])
                        /\ 2 * Abs(ret.rates[j] * d - k * One) <= d
                        /\ ret.psnrs[j] = psnrJS(RDGray(arg.blocks, arg.N), clamped, One)
                        /\ j = ret.i => ret.grayRec = clamped
              /\ \A p \in 1..Len(ret.grayRec) :
                    ret.grayRec[p] >= 0 /\ ret.grayRec[p] <= One
    /\ pc = "done" =>
          /\ ret.i = Len(arg.kValues)
          /\ ~ret.result.threw
          /\ ret.result.value.rates = ret.rates
          /\ ret.result.value.psnrs = ret.psnrs

\* A Hadamard run over kValues = <<4, 3>> has returned, and the reconstruction
\* from 3 coefficients left [0, 1] before it was clamped.
C10_Witness ==
    /\ pc = "done"
    /\ arg.kind = "had"
    /\ arg.N = 2
    /\ arg.kValues = <<4, 3>>
    /\ \E p \in 1..Len(ret.grayRec) :
          RawReconstruction(3)[p] > One \/ RawReconstruction(3)[p] < 0
    /\ ret.psnrs[1] = FromInt(PsnrSentinel)
    /\ ret.psnrs[2] # FromInt(PsnrSentinel)

----------------------------------------------------------------------------
(* lib/imageUtils: toGrayscaleFloat *)

ByteMax == 255

\* RGB bytes of a pixel
Black == <<0, 0, 0>>
White == <<ByteMax, ByteMax, ByteMax>>
Red == <<ByteMax, 0, 0>>
Grey == <<128, 128, 128>>

\* The images behind the URL and the file the user can give: 2 x 2 and 4 x 4
\* pixels, row by row.
Decode(src) ==
    IF src = "a.png"
    THEN [naturalWidth |-> 2, naturalHeight |-> 2,
          data |-> <<White, Black, Red, Grey>>]
    ELSE [naturalWidth |-> 4, naturalHeight |-> 4,
          data |-> <<Black, White, White, Black, Grey, Red, White, Grey,
                     White, White, Black, Red, Grey, Black, Black, White>>]

\* ctx.drawImage(imgEl, 0, 0, Wc, Hc) followed by getImageData: the image
\* scaled to Wc x Hc.  With Wc = w and Hc = h it is the image itself; the
\* resampling of another size is the browser's, here the nearest source pixel.
drawImage(imgEl, Wc, Hc) ==
    [i \in 1..(Wc * Hc) |->
        LET x == (i - 1) % Wc
            y == (i - 1) \div Wc
            sx == (x * imgEl.naturalWidth) \div Wc
            sy == (y * imgEl.naturalHeight) \div Hc
        IN  imgEl.data[sy * imgEl.naturalWidth + sx + 1]]

\* Line 22: 0.299 r + 0.587 g + 0.114 b of the bytes scaled by 1/255.
Luminance(rgb) ==
    LET r == Div(FromInt(rgb[1]), FromInt(ByteMax))
        g == Div(FromInt(rgb[2]), FromInt(ByteMax))
        b == Div(FromInt(rgb[3]), FromInt(ByteMax))
    IN  Add(Add(Mul(RoundDiv(299 * One, 1000), r),
                Mul(RoundDiv(587 * One, 1000), g)),
            Mul(RoundDiv(114 * One, 1000), b))

\* Lines 2..12: the canvas once it is resized, which clears it, and the
\* image is drawn over all of it; nothing is drawn on a canvas without area.
CanvasAfter(imgEl, B) ==
    LET Wc == (imgEl.naturalWidth \div B) * B
        Hc == (imgEl.naturalHeight \div B) * B
    IN  [width |-> Wc, height |-> Hc,
         data |-> IF Wc = 0 \/ Hc = 0 THEN <<>>
                  ELSE Arr(drawImage(imgEl, Wc, Hc))]

\* Lines 14..25; getImageData throws IndexSizeError for a width or height
\* of 0.
GrayFromCanvas(canvas) ==
    IF canvas.width = 0 \/ canvas.height = 0 THEN Throw("IndexSizeError")
    ELSE Return([width |-> canvas.width, height |-> canvas.height,
                 gray |-> Arr([i \in 1..(canvas.width * canvas.height) |->
                                 Fround(Luminance(canvas.data[i]))])])

toGrayscaleFloat(imgEl, B) == GrayFromCanvas(CanvasAfter(imgEl, B))

----------------------------------------------------------------------------
(* lib/transforms.js: pcaTransformJS *)

\* The m x n matrix whose columns are unit vectors: column j is e_j, or with
\* rev the unit vectors taken from the last one down.
UnitColumns(m, n, rev) ==
    [i \in 1..m |-> [j \in 1..n |->
        IF i = (IF rev THEN m + 1 - j ELSE j) THEN One ELSE 0]]

\* numeric.svd(A) for an m x n matrix A: it throws when m < n, and otherwise
\* returns U (m x n, the shape of A) and V (n x n), both with orthonormal
\* columns.  The decomposition is the numeric library's; of the factors the
\* model keeps the shapes and the orthonormal columns, and which orthonormal
\* columns they are is open (rev).
svd(A, rev) ==
    LET m == Len(A)
        n == Len(A[1])
    IN  IF m < n THEN Throw("Need more rows than columns")
        ELSE Return([U |-> UnitColumns(m, n, rev), V |-> UnitColumns(n, n, rev)])

\* Lines 84..92
ColumnMean(X, j) ==
    Div(SumSeq([i \in 1..Len(X) |-> At(X[i], j - 1)]), FromInt(Len(X)))

pcaTransformJS(blocksFlat, rev) ==
    LET X == blocksFlat
        numSamples == Len(X)
        d == Len(X[1])
        mean == Arr([j \in 1..d |-> ColumnMean(X, j)])
        Xc == Arr([i \in 1..numSamples |->
                      Arr([j \in 1..d |-> Sub(At(X[i], j - 1), mean[j])])])
        dec == IF numSamples >= d THEN svd(Xc, rev) ELSE svd(Transpose(Xc), rev)
    IN  IF dec.threw THEN dec
        ELSE LET V == IF numSamples >= d THEN dec.value.V ELSE dec.value.U
             IN  Return([T |-> Transpose(V), mean |-> mean])

----------------------------------------------------------------------------
(* App: runAnalysis, lines 248..499, the parts of its try block *)

\* Line 354
RunKValues(d) == <<2, 4, 8, 16, 24, 32, 40, 48, d>>

\* Lines 441..452 and their two repetitions: the reconstruction from the k
\* largest coefficients, clamped into [0, 1].
ReconstructionAtK(coeffs, k, T, meanVec, shape, width, height) ==
    LET blocksRec == inverseTransformBlocksJS(keepTopK(coeffs, k), T, meanVec)
        grayRec == IF blocksRec.threw THEN blocksRec
                   ELSE reconstructFromBlocksJS(blocksRec.value, shape, width, height)
    IN  IF grayRec.threw THEN grayRec
        ELSE Return(Arr([i \in 1..Len(grayRec.value) |-> Clamp01(grayRec.value[i])]))

\* The first of three calls, made in this order, that threw; the three
\* values when none did.
InOrder3(a, b, c) ==
    IF a.threw THEN a
    ELSE IF b.threw THEN b
    ELSE IF c.threw THEN c
    ELSE Return([DCT |-> a.value, Hadamard |-> b.value, PCA |-> c.value])

\* Lines 249..261: the bases and what is stored and displayed of them.
BasesOf(C1d, H1d, pca) ==
    IF H1d.threw THEN H1d
    ELSE IF pca.threw THEN pca
    ELSE Return([C1d |-> C1d,
                 T_dct |-> kron2DFrom1DJS(C1d),
                 H1d |-> H1d.value,
                 T_had |-> kron2DFrom1DJS(H1d.value),
                 T_pca |-> pca.value.T,
                 pcaMean |-> pca.value.mean])

runAnalysisBases(B, blocksFlat, rev) ==
    BasesOf(dctMatrixJS(B), hadamardMatrixJS(B), pcaTransformJS(blocksFlat, rev))

\* Lines 279..281
runAnalysisCoeffs(blocksFlat, bases) ==
    InOrder3(transformBlocksJS(blocksFlat, bases.T_dct, NoMean),
             transformBlocksJS(blocksFlat, bases.T_had, NoMean),
             transformBlocksJS(blocksFlat, bases.T_pca, bases.pcaMean))

\* Lines 289..312
EnergyData(d, ecDCT, ecHAD, ecPCA) ==
    [labels |-> Arr([i \in 1..Len(ecDCT.ks) |->
                        Div(FromInt(ecDCT.ks[i]), FromInt(d))]),
     datasets |-> [DCT |-> ecDCT.avgFrac,
                   Hadamard |-> ecHAD.avgFrac,
                   PCA |-> ecPCA.avgFrac]]

\* Lines 284..287: maxK = d
runAnalysisEnergy(d, coeffs) ==
    EnergyData(d, energyCompactionCurveJS(coeffs.DCT, d),
                  energyCompactionCurveJS(coeffs.Hadamard, d),
                  energyCompactionCurveJS(coeffs.PCA, d))

\* Lines 355..384
runAnalysisRD(c, bases) ==
    InOrder3(rateDistortionJS(c.originalImage.gray, c.originalImage.width,
                              c.originalImage.height, c.blocksFlat,
                              c.blocksShape, bases.T_dct, NoMean,
                              RunKValues(c.B * c.B)),
             rateDistortionJS(c.originalImage.gray, c.originalImage.width,
                              c.originalImage.height, c.blocksFlat,
                              c.blocksShape, bases.T_had, NoMean,
                              RunKValues(c.B * c.B)),
             rateDistortionJS(c.originalImage.gray, c.originalImage.width,
                              c.originalImage.height, c.blocksFlat,
                              c.blocksShape, bases.T_pca, bases.pcaMean,
                              RunKValues(c.B * c.B)))

\* Lines 386..408
RDData(rd) ==
    [labels |-> rd.DCT.rates,
     datasets |-> [DCT |-> rd.DCT.psnrs,
                   Hadamard |-> rd.Hadamard.psnrs,
                   PCA |-> rd.PCA.psnrs]]

\* Lines 441..485
runAnalysisShown(c, bases, coeffs) ==
    InOrder3(ReconstructionAtK(coeffs.DCT, c.k, bases.T_dct, NoMean,
                               c.blocksShape, c.originalImage.width,
                               c.originalImage.height),
             ReconstructionAtK(coeffs.Hadamard, c.k, bases.T_had, NoMean,
                               c.blocksShape, c.originalImage.width,
                               c.originalImage.height),
             ReconstructionAtK(coeffs.PCA, c.k, bases.T_pca, bases.pcaMean,
                               c.blocksShape, c.originalImage.width,
                               c.originalImage.height))

\* Lines 487..497
Metrics(c, gray) ==
    [kShow |-> c.k,
     d |-> c.B * c.B,
     P_dct |-> psnrJS(c.originalImage.gray, gray.DCT, One),
     P_had |-> psnrJS(c.originalImage.gray, gray.Hadamard, One),
     P_pca |-> psnrJS(c.originalImage.gray, gray.PCA, One)]

\* The try block, lines 248..499, for the run with locals c: what each part
\* gives, a part being reached when the parts before it did not throw.
runAnalysisParts(c, bases, coeffs, rd, shown) ==
    [bases |-> bases,
     energy |-> IF coeffs.threw THEN coeffs
                ELSE Return(runAnalysisEnergy(c.B * c.B, coeffs.value)),
     rd |-> IF rd.threw THEN rd ELSE Return(RDData(rd.value)),
     metrics |-> IF shown.threw THEN shown ELSE Return(Metrics(c, shown.value))]

runAnalysisFromRD(c, bases, coeffs, rd) ==
    runAnalysisParts(c, bases, coeffs, rd,
        IF rd.threw THEN rd
        ELSE runAnalysisShown(c, bases.value, coeffs.value))

runAnalysisFromCoeffs(c, bases, coeffs) ==
    runAnalysisFromRD(c, bases, coeffs,
        IF coeffs.threw THEN coeffs ELSE runAnalysisRD(c, bases.value))

runAnalysisFromBases(c, bases) ==
    runAnalysisFromCoeffs(c, bases,
        IF bases.threw THEN bases
        ELSE runAnalysisCoeffs(c.blocksFlat, bases.value))

runAnalysisTry(c, rev) ==
    runAnalysisFromBases(c, runAnalysisBases(c.B, c.blocksFlat, rev))

----------------------------------------------------------------------------
(* App: the inputs, the Load Image button and the Run button *)

MaxEvents == 6      \* inputs and clicks in a session
MaxPending == 1     \* images loading at one time

ImageUrls == {"a.png"}          \* what the user types in the URL field
ImageUploads == {"b.png"}       \* what the user picks in the file input
BlockSizeInputs == {1, 2, 3}    \* what the user types in the block-size field
KShowInputs == {1}              \* what the user types in the k field

\* parseInt(v, 10) || dflt, for the numbers the fields hold
ParseIntOr(v, dflt) == IF v = 0 THEN dflt ELSE v

Init ==
    /\ pc = "app"
    /\ arg = <<>>
    /\ ret = <<>>
    /\ AppStart

\* Lines 538..542
SetImageUrl ==
    /\ events < MaxEvents
    /\ \E v \in ImageUrls :
          /\ imageUrl' = v
          /\ imageFile' = ""
    /\ events' = events + 1
    /\ UNCHANGED <<harnessVars, sweepVars, hiddenCanvas, blockSize, kShow, status, metrics, isRunning,
                   canRun, dctMatrix, hadMatrix, energyChartRef, rdChartRef,
                   originalImageRef, blocksFlatRef, blocksShapeRef, T_dctRef,
                   T_hadRef, T_pcaRef, pcaMeanRef, imgElementRef, loading,
                   running>>

\* Line 590
SetImageFile ==
    /\ events < MaxEvents
    /\ \E f \in ImageUploads : imageFile' = f
    /\ events' = events + 1
    /\ UNCHANGED <<harnessVars, sweepVars, hiddenCanvas, imageUrl, blockSize, kShow, status, metrics,
                   isRunning, canRun, dctMatrix, hadMatrix, energyChartRef,
                   rdChartRef, originalImageRef, blocksFlatRef, blocksShapeRef,
                   T_dctRef, T_hadRef, T_pcaRef, pcaMeanRef, imgElementRef,
                   loading, running>>

\* Line 559
SetBlockSize ==
    /\ events < MaxEvents
    /\ \E v \in BlockSizeInputs : blockSize' = v
    /\ events' = events + 1
    /\ UNCHANGED <<harnessVars, sweepVars, hiddenCanvas, imageUrl, imageFile, kShow, status, metrics,
                   isRunning, canRun, dctMatrix, hadMatrix, energyChartRef,
                   rdChartRef, originalImageRef, blocksFlatRef, blocksShapeRef,
                   T_dctRef, T_hadRef, T_pcaRef, pcaMeanRef, imgElementRef,
                   loading, running>>

\* Line 572
SetKShow ==
    /\ events < MaxEvents
    /\ \E v \in KShowInputs : kShow' = v
    /\ events' = events + 1
    /\ UNCHANGED <<harnessVars, sweepVars, hiddenCanvas, imageUrl, imageFile, blockSize, status, metrics,
                   isRunning, canRun, dctMatrix, hadMatrix, energyChartRef,
                   rdChartRef, originalImageRef, blocksFlatRef, blocksShapeRef,
                   T_dctRef, T_hadRef, T_pcaRef, pcaMeanRef, imgElementRef,
                   loading, running>>

\* Lines 198..221, behind a button that is disabled while isRunning (line
\* 622).  The Image created keeps the handleImageLoaded of this render, and
\* with it this render's blockSize.
handleLoadImageClick ==
    /\ events < MaxEvents
    /\ ~isRunning
    /\ IF imageUrl = "" /\ imageFile = ""
       THEN /\ status' = "Provide an image URL or upload a file."
            /\ UNCHANGED loading
       ELSE /\ Cardinality(loading) < MaxPending
            /\ loading' = loading \cup
                  {[src |-> IF imageUrl # "" THEN imageUrl ELSE imageFile,
                    blockSize |-> blockSize]}
            /\ UNCHANGED status
    /\ events' = events + 1
    /\ UNCHANGED <<harnessVars, sweepVars, hiddenCanvas, imageUrl, imageFile, blockSize, kShow, metrics,
                   isRunning, canRun, dctMatrix, hadMatrix, energyChartRef,
                   rdChartRef, originalImageRef, blocksFlatRef, blocksShapeRef,
                   T_dctRef, T_hadRef, T_pcaRef, pcaMeanRef, imgElementRef,
                   running>>

\* Lines 183..190: what handleImageLoaded stores of the image.
Loaded(imgData, B) ==
    LET ex == extractBlocksJS(imgData.gray, imgData.width, imgData.height, B)
    IN  [originalImage |-> imgData,
         blocksFlat |-> Arr([i \in 1..Len(ex.blocks) |-> Arr(ex.blocks[i])]),
         blocksShape |-> ex.shape]

\* The locals of a run started with block size B and k on what was loaded
\* with block size loadB, lines 224..236.
RunLocals(stored, B, k) ==
    [originalImage |-> stored.originalImage,
     blocksFlat |-> stored.blocksFlat,
     blocksShape |-> stored.blocksShape,
     B |-> B, k |-> k]

\* The try block for every run the inputs allow, worked out once: the key
\* is the locals of the run and the decomposition.
RunKeys ==
    {<<RunLocals(Loaded(toGrayscaleFloat(Decode(t[1]), t[2]).value, t[2]),
                 ParseIntOr(B, DefaultBlockSize), ParseIntOr(k, DefaultKShow)),
       rev>> :
        t \in {u \in (ImageUrls \cup ImageUploads) \X BlockSizeInputs :
                  ~toGrayscaleFloat(Decode(u[1]), u[2]).threw},
        B \in BlockSizeInputs, k \in KShowInputs \cup {0}, rev \in BOOLEAN}

Runs == [t \in RunKeys |-> runAnalysisTry(t[1], t[2])]

\* img.onload, lines 206..209, and handleImageLoaded, lines 176..196.  An
\* exception of toGrayscaleFloat leaves the handler after line 181.
ImageOnload ==
    /\ \E p \in loading :
          LET B == ParseIntOr(p.blockSize, DefaultBlockSize)
              imgData == GrayFromCanvas(hiddenCanvas')
          IN  /\ loading' = loading \ {p}
              /\ imgElementRef' = p.src
              /\ hiddenCanvas' = CanvasAfter(Decode(p.src), B)
              /\ IF imgData.threw
                 THEN /\ status' = "Converting to grayscale and preparing data..."
                      /\ UNCHANGED <<originalImageRef, blocksFlatRef,
                                     blocksShapeRef, canRun>>
                 ELSE LET stored == Loaded(imgData.value, B)
                      IN  /\ originalImageRef' = Some(stored.originalImage)
                          /\ blocksFlatRef' = Some(stored.blocksFlat)
                          /\ blocksShapeRef' = Some(stored.blocksShape)
                          /\ canRun' = TRUE
                          /\ status' = "Image loaded. Click 'Run Transforms & Analysis'."
    /\ UNCHANGED <<harnessVars, sweepVars, imageUrl, imageFile, blockSize, kShow, metrics,
                   isRunning, dctMatrix, hadMatrix, energyChartRef, rdChartRef,
                   T_dctRef, T_hadRef, T_pcaRef, pcaMeanRef, running, events>>

\* img.onerror, line 210
ImageOnerror ==
    /\ \E p \in loading : loading' = loading \ {p}
    /\ status' = "Failed to load image. Check URL or file."
    /\ UNCHANGED <<harnessVars, sweepVars, hiddenCanvas, imageUrl, imageFile, blockSize, kShow, metrics,
                   isRunning, canRun, dctMatrix, hadMatrix, energyChartRef,
                   rdChartRef, originalImageRef, blocksFlatRef, blocksShapeRef,
                   T_dctRef, T_hadRef, T_pcaRef, pcaMeanRef, imgElementRef,
                   running, events>>

\* runAnalysis up to its await, lines 223..246, behind a button that is
\* disabled unless canRun and while isRunning (line 628).
runAnalysisStart ==
    /\ events < MaxEvents
    /\ canRun
    /\ ~isRunning
    /\ IF originalImageRef = Null \/ blocksFlatRef = Null \/ blocksShapeRef = Null
       THEN /\ status' = "Load an image first."
            /\ UNCHANGED <<isRunning, metrics, running>>
       ELSE /\ isRunning' = TRUE
            /\ metrics' = Null
            /\ status' = "Building transforms and running analysis (this may take a few seconds)..."
            /\ running' = Some(RunLocals([originalImage |-> originalImageRef[1],
                                           blocksFlat |-> blocksFlatRef[1],
                                           blocksShape |-> blocksShapeRef[1]],
                                          ParseIntOr(blockSize, DefaultBlockSize),
                                          ParseIntOr(kShow, DefaultKShow)))
    /\ events' = events + 1
    /\ UNCHANGED <<harnessVars, sweepVars, hiddenCanvas, imageUrl, imageFile, blockSize, kShow, canRun,
                   dctMatrix, hadMatrix, energyChartRef, rdChartRef,
                   originalImageRef, blocksFlatRef, blocksShapeRef, T_dctRef,
                   T_hadRef, T_pcaRef, pcaMeanRef, imgElementRef, loading>>

\* Lines 247..261 with the refs and the two matrices cleared when the run
\* begins, so that a failed build leaves them empty.
BasisRefs_cleared(bases, old) ==
    IF bases.threw
    THEN [T_dct |-> Null, T_had |-> Null, T_pca |-> Null, pcaMean |-> Null,
          dctMatrix |-> Null, hadMatrix |-> Null]
    ELSE [T_dct |-> Some(bases.value.T_dct),
          T_had |-> Some(bases.value.T_had),
          T_pca |-> Some(bases.value.T_pca),
          pcaMean |-> Some(bases.value.pcaMean),
          dctMatrix |-> bases.value.C1d,
          hadMatrix |-> bases.value.H1d]

\* Lines 247..261: the four refs and the two matrices after the try block's
\* first part.  The six assignments follow the five builds, so a build that
\* throws jumps to the catch with all six as they were (old).
BasisRefs(bases, old) ==
    IF bases.threw THEN old
    ELSE [T_dct |-> Some(bases.value.T_dct),
          T_had |-> Some(bases.value.T_had),
          T_pca |-> Some(bases.value.T_pca),
          pcaMean |-> Some(bases.value.pcaMean),
          dctMatrix |-> bases.value.C1d,
          hadMatrix |-> bases.value.H1d]

\* runAnalysis after its await, lines 248..505: the try block, which an
\* exception leaves for the catch, and the finally.  c holds the locals of
\* the run; each part of the try block is reached when the parts before it
\* did not throw.
runAnalysisResume ==
    /\ running # Null
    /\ \E rev \in BOOLEAN :
       \E r \in {Runs[<<running[1], rev>>]} :
          /\ \E s \in {BasisRefs(r.bases,
                            [T_dct |-> T_dctRef, T_had |-> T_hadRef,
                             T_pca |-> T_pcaRef, pcaMean |-> pcaMeanRef,
                             dctMatrix |-> dctMatrix, hadMatrix |-> hadMatrix])} :
                /\ T_dctRef' = s.T_dct
                /\ T_hadRef' = s.T_had
                /\ T_pcaRef' = s.T_pca
                /\ pcaMeanRef' = s.pcaMean
                /\ dctMatrix' = s.dctMatrix
                /\ hadMatrix' = s.hadMatrix
          /\ energyChartRef' = IF r.energy.threw THEN energyChartRef
                               ELSE Some(r.energy.value)
          /\ rdChartRef' = IF r.rd.threw THEN rdChartRef ELSE Some(r.rd.value)
          /\ metrics' = IF r.metrics.threw THEN metrics ELSE Some(r.metrics.value)
          /\ status' = IF r.metrics.threw
                       THEN "Error during analysis: " \o r.metrics.error
                       ELSE "Done. Explore the plots and reconstructions above."
    /\ isRunning' = FALSE
    /\ running' = Null
    /\ UNCHANGED <<harnessVars, sweepVars, hiddenCanvas, imageUrl, imageFile, blockSize, kShow, canRun,
                   originalImageRef, blocksFlatRef, blocksShapeRef,
                   imgElementRef, loading, events>>

----------------------------------------------------------------------------
(* App: runSweepForCurrentImage and the Run Sweep button *)

MaxSweepSizes == 2  \* block sizes in a sweep

\* The button passes blockSizes = [4, 8, 16, 32] (line 653), each the double
\* of the one before.  The images here are at most 4 pixels wide, so the
\* sweep runs over the sizes in the same ratio that fit them: 2, 4, ...
SweepBlockSizes == [i \in 1..MaxSweepSizes |-> Pow2(i)]

\* kFractions = [0.05, 0.1, 0.2, 0.3, 0.5, 0.75, 1.0] (line 654), in
\* thousandths
KFractions == <<50, 100, 200, 300, 500, 750, 1000>>

\* Line 74: Math.max(1, Math.round(f * d))
SweepKValues(d) ==
    [i \in 1..Len(KFractions) |->
        LET r == (2 * KFractions[i] * d + 1000) \div 2000
        IN  IF r < 1 THEN 1 ELSE r]

\* Lines 76..105: the three calls, in the order DCT, Hadamard, PCA.
SweepRDOf(rd) == InOrder3(rd[1], rd[2], rd[3])

SweepRD(img, blocks, shape, bases, kValues) ==
    SweepRDOf([t \in 1..3 |->
        rateDistortionJS(img.gray, img.width, img.height, blocks, shape,
            IF t = 1 THEN bases.T_dct ELSE IF t = 2 THEN bases.T_had
                     ELSE bases.T_pca,
            IF t = 3 THEN bases.pcaMean ELSE NoMean,
            kValues)])

TransformNames == <<"DCT", "Hadamard", "PCA">>

\* The rows ordered by transform before k
SweepRows_byTransform(B, kValues, rd) ==
    [n \in 1..(3 * Len(kValues)) |->
        LET i == ((n - 1) % Len(kValues)) + 1
            name == TransformNames[((n - 1) \div Len(kValues)) + 1]
        IN  [blockSize |-> B,
             k |-> kValues[i],
             rate |-> Div(FromInt(kValues[i]), FromInt(B * B)),
             transform |-> name,
             psnr |-> At(rd[name].psnrs, i - 1)]]

\* Lines 107..132: for each i three rows are pushed.
SweepRows(B, kValues, rd) ==
    [n \in 1..(3 * Len(kValues)) |->
        LET i == (n - 1) \div 3 + 1
            name == TransformNames[((n - 1) % 3) + 1]
        IN  [blockSize |-> B,
             k |-> kValues[i],
             rate |-> Div(FromInt(kValues[i]), FromInt(B * B)),
             transform |-> name,
             psnr |-> At(rd[name].psnrs, i - 1)]]

\* Lines 107..132, with the three curves computed
SweepRowsOf(B, kValues, rd) ==
    IF rd.threw THEN rd ELSE Return(SweepRows(B, kValues, rd.value))

\* Lines 76..132, with the bases built
SweepWithBases(img, blocks, shape, B, bases) ==
    IF bases.threw THEN bases
    ELSE SweepRowsOf(B, SweepKValues(B * B),
                     SweepRD(img, blocks, shape, bases.value,
                             SweepKValues(B * B)))

\* Lines 64..132, with the blocks extracted
SweepWithBlocks(img, ex, B, rev) ==
    SweepWithBases(img, ex.blocks, ex.shape, B,
                   BasesOf(dctMatrixJS(B), hadamardMatrixJS(B),
                           pcaTransformJS(ex.blocks, rev)))

\* Lines 63..132, one pass of "for (const B of blockSizes)" from what
\* toGrayscaleFloat returned: the rows it pushes.
SweepIteration(imgData, B, rev) ==
    IF imgData.threw THEN imgData
    ELSE SweepWithBlocks(imgData.value,
                         extractBlocksJS(imgData.value.gray, imgData.value.width,
                                         imgData.value.height, B),
                         B, rev)

\* SweepIteration for every canvas a pass of a sweep can find drawn, worked
\* out once: the key is the canvas, the block size and the decomposition.
SweepPassKeys ==
    {<<CanvasAfter(Decode(src), SweepBlockSizes[i]), SweepBlockSizes[i], rev>> :
        src \in ImageUrls \cup ImageUploads, i \in 1..Len(SweepBlockSizes),
        rev \in BOOLEAN}

SweepPasses ==
    [t \in SweepPassKeys |-> SweepIteration(GrayFromCanvas(t[1]), t[2], t[3])]

\* The image a pass draws: imgEl, the element the button handed over when
\* the sweep began (lines 54 and 651), whatever imgElementRef holds by now.
SweepImage_current(imgEl, current) == current

SweepImage(imgEl, current) == imgEl

\* Number.prototype.toFixed(digits): the decimal text, here the number of
\* units of the last digit kept; NaN and the infinities are spelled out.
ToFixed(v, digits) ==
    IF ~IsFinite(v) THEN v
    ELSE LET scale == IF digits = 4 THEN 10000 ELSE 1
         IN  Sign(v) * RoundDiv(Abs(v) * scale, One)

CsvHeader == "blockSize,k,rate,transform,psnr"

\* Lines 659..673: the header line and one line per result
Csv(results) ==
    [name |-> "transform_sweep_results.csv",
     header |-> CsvHeader,
     rows |-> [i \in 1..Len(results) |->
                 [blockSize |-> results[i].blockSize,
                  k |-> results[i].k,
                  rate |-> ToFixed(results[i].rate, 4),
                  transform |-> results[i].transform,
                  psnr |-> ToFixed(results[i].psnr, 4)]]]

\* A pass with setIsSweepRunning(false) as the last statement of the try
\* block and not in a finally: a pass that throws leaves the flag set.
SweepPass_noFinally(c, yielding) ==
    \E rev \in BOOLEAN, B \in {SweepBlockSizes[c.i + 1]} :
       /\ hiddenCanvas' =
             CanvasAfter(Decode(SweepImage(c.imgEl, imgElementRef)), B)
       /\ \E it \in {SweepPasses[<<hiddenCanvas', B, rev>>]} :
             IF it.threw
             THEN /\ status' = "Error during sweep: " \o it.error
                  /\ isSweepRunning' = TRUE
                  /\ sweeping' = Null
             ELSE /\ status' = yielding
                  /\ isSweepRunning' = TRUE
                  /\ sweeping' = Some([c EXCEPT !.i = @ + 1,
                                                !.results = @ \o it.value,
                                                !.revs = Append(@, rev)])

\* One pass of the loop of runSweepForCurrentImage, lines 62..134, for the
\* sweep with locals c, and what the button's handler does when the pass
\* throws (lines 679..684).  yielding is the status while the sweep awaits.
SweepPass(c, yielding) ==
    \E rev \in BOOLEAN, B \in {SweepBlockSizes[c.i + 1]} :
       /\ hiddenCanvas' =
             CanvasAfter(Decode(SweepImage(c.imgEl, imgElementRef)), B)
       /\ \E it \in {SweepPasses[<<hiddenCanvas', B, rev>>]} :
             IF it.threw
             THEN /\ status' = "Error during sweep: " \o it.error
                  /\ isSweepRunning' = FALSE
                  /\ sweeping' = Null
             ELSE /\ status' = yielding
                  /\ isSweepRunning' = TRUE
                  /\ sweeping' = Some([c EXCEPT !.i = @ + 1,
                                                !.results = @ \o it.value,
                                                !.revs = Append(@, rev)])

\* The Run Sweep button, lines 642..656, disabled while isRunning or
\* isSweepRunning and unless canRun (line 686); runSweepForCurrentImage runs
\* to its first await within the click.
sweepClick ==
    /\ events < MaxEvents
    /\ ~(isRunning \/ isSweepRunning \/ ~canRun)
    /\ IF imgElementRef = ""
       THEN /\ status' = "Load an image first, then run the sweep."
            /\ UNCHANGED <<isSweepRunning, sweeping, hiddenCanvas>>
       ELSE SweepPass([imgEl |-> imgElementRef, i |-> 0, results |-> <<>>,
                       revs |-> <<>>],
                      "Running sweep experiments...")
    /\ events' = events + 1
    /\ UNCHANGED <<harnessVars, imageUrl, imageFile, blockSize, kShow, metrics,
                   isRunning, canRun, dctMatrix, hadMatrix, energyChartRef,
                   rdChartRef, originalImageRef, blocksFlatRef, blocksShapeRef,
                   T_dctRef, T_hadRef, T_pcaRef, pcaMeanRef, imgElementRef,
                   loading, running, consoleTable, download>>

\* The timeout of line 134 fires with block sizes left: the next pass.
sweepResume ==
    /\ sweeping # Null
    /\ sweeping[1].i < Len(SweepBlockSizes)
    /\ SweepPass(sweeping[1], status)
    /\ UNCHANGED <<harnessVars, imageUrl, imageFile, blockSize, kShow, metrics,
                   isRunning, canRun, dctMatrix, hadMatrix, energyChartRef,
                   rdChartRef, originalImageRef, blocksFlatRef, blocksShapeRef,
                   T_dctRef, T_hadRef, T_pcaRef, pcaMeanRef, imgElementRef,
                   loading, running, events, consoleTable, download>>

\* The timeout fires after the last pass: line 137 and lines 657..684.
sweepReturn ==
    /\ sweeping # Null
    /\ sweeping[1].i = Len(SweepBlockSizes)
    /\ consoleTable' = Some(sweeping[1].results)
    /\ download' = Some(Csv(sweeping[1].results))
    /\ status' = "Sweep done. CSV downloaded and data logged to console."
    /\ isSweepRunning' = FALSE
    /\ sweeping' = Null
    /\ UNCHANGED <<harnessVars, imageUrl, imageFile, blockSize, kShow, metrics,
                   isRunning, canRun, dctMatrix, hadMatrix, energyChartRef,
                   rdChartRef, originalImageRef, blocksFlatRef, blocksShapeRef,
                   T_dctRef, T_hadRef, T_pcaRef, pcaMeanRef, imgElementRef,
                   loading, running, events, hiddenCanvas>>

Next ==
    \/ SetImageUrl
    \/ SetImageFile
    \/ SetBlockSize
    \/ SetKShow
    \/ handleLoadImageClick
    \/ ImageOnload
    \/ ImageOnerror
    \/ runAnalysisStart
    \/ runAnalysisResume
    \/ sweepClick
    \/ sweepResume
    \/ sweepReturn

Spec == Init /\ [][Next]_vars

\* C9: whatever maxK a caller asks of energyCompactionCurveJS, the curve has
\* one point per k = 1..maxK, every average fraction is a number in [0, 1],
\* and the fractions do not decrease with k.  runAnalysis asks for
\* maxK = d = B * B of the cosine, the Hadamard and the learned coefficients
\* and charts the three curves over the labels k / d.
C9_EnergyCurveDefinedAndMonotone ==
    energyChartRef # Null =>
        LET chart == energyChartRef[1]
            maxK == Len(chart.labels)
        IN  /\ \A k \in 1..maxK :
                  2 * Abs(chart.labels[k] * maxK - k * One) <= maxK
            /\ \A name \in {"DCT", "Hadamard", "PCA"} :
                  LET avgFrac == chart.datasets[name]
                  IN  /\ Len(avgFrac) = maxK
                      /\ \A k \in 1..maxK :
                            /\ IsFinite(avgFrac[k])
                            /\ avgFrac[k] >= 0
                            /\ avgFrac[k] <= One
                      /\ \A k \in 1..(maxK - 1) : avgFrac[k] <= avgFrac[k + 1]

----------------------------------------------------------------------------
(* The core on a heap: the arrays each function allocates and writes *)

\* A heap is the sequence of the arrays allocated so far, and the reference
\* to an array is its position.  An array of arrays holds references; the
\* reference 0 is null.  A run of element writes a[j] = v into one array is
\* one Store of what they leave in it.
New(h, a) == [heap |-> Append(h, Arr(a)), ref |-> Len(h) + 1]

Store(h, r, a) == [h EXCEPT ![r] = Arr(a)]

\* The matrix behind the array of rows at r
Rows(h, r) == [i \in 1..Len(h[r]) |-> h[h[r][i]]]

\* Fresh rows holding M, and the fresh array of them
NewRows(h, M) ==
    [heap |-> h \o Arr([i \in 1..Len(M) |-> Arr(M[i])])
                \o <<[i \in 1..Len(M) |-> Len(h) + i]>>,
     ref |-> Len(h) + Len(M) + 1]

MeanOf(h, meanVec) == IF meanVec = 0 THEN NoMean ELSE h[meanVec]

\* row.slice() without the copy: the row itself
Slice_alias(h, r) == [heap |-> h, ref |-> r]

\* row.slice()
Slice(h, r) == New(h, h[r])

\* a.map((row) => row.slice()) from row i on, out being the rows made so far
RECURSIVE MapSliceFrom(_, _, _, _)
MapSliceFrom(h, r, out, i) ==
    IF i > Len(h[r]) THEN New(h, out)
    ELSE LET row == Slice(h, h[r][i])
         IN  MapSliceFrom(row.heap, r, Append(out, row.ref), i + 1)

MapSlice(h, r) == MapSliceFrom(h, r, <<>>, 1)

\* imageUtils lines 49..65: blocks and every block are new.
Heap_extractBlocksJS(h, gray, width, height, B) ==
    NewRows(h, extractBlocksJS(h[gray], width, height, B).blocks)

\* imageUtils lines 70..85: gray is new and the only array written.
Heap_reconstructFromBlocksJS(h, blocks, shape, width, height) ==
    LET g == reconstructFromBlocksJS(Rows(h, blocks), shape, width, height)
    IN  IF g.threw THEN [heap |-> h, ref |-> 0] ELSE New(h, g.value)

\* Lines 79..119: X copies the rows; mean, Xc and what numeric returns are
\* new.
Heap_pcaTransformJS(h, blocksFlat, rev) ==
    LET X == MapSlice(h, blocksFlat)
        p == pcaTransformJS(Rows(X.heap, X.ref), rev)
        mean == New(X.heap, p.value.mean)
        T == NewRows(mean.heap, p.value.T)
    IN  IF p.threw THEN [heap |-> X.heap, ref |-> 0, mean |-> 0]
        ELSE [heap |-> T.heap, ref |-> T.ref, mean |-> mean.ref]

\* Lines 131..138 from block i on
RECURSIVE Heap_transformLoop(_, _, _, _, _, _)
Heap_transformLoop(h, blocksFlat, T, meanVec, coeffs, i) ==
    IF i > Len(h[blocksFlat]) THEN h
    ELSE LET d == Len(h[h[blocksFlat][1]])
             m == Len(h[T])
             x == Slice(h, h[blocksFlat][i])
             h1 == IF meanVec = 0 THEN x.heap
                   ELSE Store(x.heap, x.ref,
                              Centered(x.heap[x.ref], d, h[meanVec]))
             y == DotVM(h1[x.ref], Transpose(Rows(h1, T)))
         IN  IF y.threw THEN h1
             ELSE Heap_transformLoop(
                      Store(New(h1, y.value).heap, h1[coeffs][i],
                            [j \in 1..m |-> At(y.value, j - 1)]),
                      blocksFlat, T, meanVec, coeffs, i + 1)

\* Lines 125..139
Heap_transformBlocksJS(h, blocksFlat, T, meanVec) ==
    LET coeffs == NewRows(h, Rep(Len(h[blocksFlat]), Len(h[T]), 0))
    IN  [heap |-> Heap_transformLoop(coeffs.heap, blocksFlat, T, meanVec,
                                     coeffs.ref, 1),
         ref |-> coeffs.ref]

\* Lines 146..153 from block i on: y is the row coeffs[i] itself, x is new.
RECURSIVE Heap_inverseLoop(_, _, _, _, _, _)
Heap_inverseLoop(h, coeffs, T, meanVec, blocks, i) ==
    IF i > Len(h[coeffs]) THEN h
    ELSE LET d == Len(h[h[T][1]])
             y == h[coeffs][i]
             dot == DotVM(h[y], Rows(h, T))
             x == New(h, dot.value)
             h1 == IF meanVec = 0 THEN x.heap
                   ELSE Store(x.heap, x.ref,
                              Uncentered(x.heap[x.ref], d, h[meanVec]))
         IN  IF dot.threw THEN h
             ELSE Heap_inverseLoop(
                      Store(h1, blocks, [h1[blocks] EXCEPT ![i] = x.ref]),
                      coeffs, T, meanVec, blocks, i + 1)

\* Lines 143..154
Heap_inverseTransformBlocksJS(h, coeffs, T, meanVec) ==
    LET blocks == New(h, [i \in 1..Len(h[coeffs]) |-> 0])
    IN  [heap |-> Heap_inverseLoop(blocks.heap, coeffs, T, meanVec,
                                   blocks.ref, 1),
         ref |-> blocks.ref]

\* Lines 165..178 from row i on: row is Y[i] itself; mags and sorted are new.
RECURSIVE Heap_keepTopKLoop(_, _, _, _)
Heap_keepTopKLoop(h, Y, k, i) ==
    IF i > Len(h[Y]) THEN h
    ELSE LET row == h[Y][i]
         IN  Heap_keepTopKLoop(Store(h, row, keepTopKRow(h[row], k)),
                               Y, k, i + 1)

\* Lines 160..179
Heap_keepTopK(h, coeffs, k) ==
    LET m == Len(h[h[coeffs][1]])
        Y == MapSlice(h, coeffs)
    IN  IF k >= m THEN Y
        ELSE [heap |-> Heap_keepTopKLoop(Y.heap, Y.ref, k, 1), ref |-> Y.ref]

\* Lines 194..199 from row i on: sq is new and is sorted in place.
RECURSIVE Heap_energyLoop(_, _, _)
Heap_energyLoop(h, coeffs, i) ==
    IF i > Len(h[coeffs]) THEN h
    ELSE LET row == h[h[coeffs][i]]
             sq == New(h, [j \in 1..Len(row) |-> Mul(row[j], row[j])])
         IN  Heap_energyLoop(Store(sq.heap, sq.ref, SortDesc(sq.heap[sq.ref])),
                             coeffs, i + 1)

\* Lines 185..212: ks and avgFrac are new.
Heap_energyCompactionCurveJS(h, coeffs, maxK) ==
    LET ec == energyCompactionCurveJS(Rows(h, coeffs), maxK)
        ks == New(Heap_energyLoop(h, coeffs, 1), ec.ks)
    IN  New(ks.heap, ec.avgFrac)

\* Lines 233..239: grayRec, the array clamped, is the one
\* reconstructFromBlocksJS made.
Heap_RDIteration(h, coeffs, shape, width, height, T, meanVec, k) ==
    LET Yk == Heap_keepTopK(h, coeffs, k)
        blocksRec == Heap_inverseTransformBlocksJS(Yk.heap, Yk.ref, T, meanVec)
        grayRec == Heap_reconstructFromBlocksJS(blocksRec.heap, blocksRec.ref,
                                                shape, width, height)
    IN  IF grayRec.ref = 0 THEN grayRec
        ELSE [heap |-> Store(grayRec.heap, grayRec.ref,
                             [i \in 1..Len(grayRec.heap[grayRec.ref]) |->
                                 Clamp01(grayRec.heap[grayRec.ref][i])]),
              ref |-> grayRec.ref]

----------------------------------------------------------------------------
(* Each core function run on a heap that holds its arguments *)

\* The block edges tried: those a Hadamard basis exists for.
FrameEdges == {n \in 1..MaxRDEdge : ~HadamardGuardFails(n)}

FrameKs == {0, 1, 3, 4, 5}

\* The heap before the call: the grid, the blocks, the basis and, when
\* withMean, the mean vector.
FrameArgs(B, b, kind, withMean, k) ==
    LET gray == New(<<>>, RDGray(b, B))
        blocks == NewRows(gray.heap, b)
        T == NewRows(blocks.heap, kron2DFrom1DJS(Basis1D(kind, B).value))
        mean == New(T.heap, [j \in 1..(B * B) |-> ColumnMean(b, j)])
    IN  [heap |-> IF withMean THEN mean.heap ELSE T.heap,
         gray |-> gray.ref, blocks |-> blocks.ref, T |-> T.ref,
         meanVec |-> IF withMean THEN mean.ref ELSE 0,
         width |-> RDWidth(b, B), height |-> B, B |-> B,
         shape |-> RDShape(b, B), k |-> k, kValues |-> <<k, B * B>>]

InitFrame ==
    /\ pc = "start"
    /\ arg \in UNION {
           {FrameArgs(B, b, kind, withMean, k) :
                b \in BlockRows(B * B), kind \in {"dct", "had"},
                withMean \in BOOLEAN, k \in FrameKs} :
           B \in FrameEdges}
    /\ ret = [heap |-> arg.heap, op |-> "", coeffs |-> 0, computed |-> <<>>,
              i |-> 0]
    /\ AppStart

FrameExtract ==
    /\ pc = "start"
    /\ \E r \in {Heap_extractBlocksJS(arg.heap, arg.gray, arg.width,
                                      arg.height, arg.B)} :
          ret' = [ret EXCEPT !.heap = r.heap, !.op = "extractBlocksJS"]
    /\ pc' = "done"
    /\ UNCHANGED <<arg, appVars>>

FrameReconstruct ==
    /\ pc = "start"
    /\ \E r \in {Heap_reconstructFromBlocksJS(arg.heap, arg.blocks, arg.shape,
                                              arg.width, arg.height)} :
          ret' = [ret EXCEPT !.heap = r.heap, !.op = "reconstructFromBlocksJS"]
    /\ pc' = "done"
    /\ UNCHANGED <<arg, appVars>>

FramePca ==
    /\ pc = "start"
    /\ \E rev \in BOOLEAN :
       \E r \in {Heap_pcaTransformJS(arg.heap, arg.blocks, rev)} :
          ret' = [ret EXCEPT !.heap = r.heap, !.op = "pcaTransformJS"]
    /\ pc' = "done"
    /\ UNCHANGED <<arg, appVars>>

\* transformBlocksJS on its own, and as line 228 of rateDistortionJS
FrameTransform ==
    /\ pc = "start"
    /\ \E r \in {Heap_transformBlocksJS(arg.heap, arg.blocks, arg.T,
                                        arg.meanVec)} :
          ret' = [ret EXCEPT !.heap = r.heap, !.op = "transformBlocksJS",
                             !.coeffs = r.ref,
                             !.computed = Rows(r.heap, r.ref)]
    /\ pc' = "coeffs"
    /\ UNCHANGED <<arg, appVars>>

FrameInverse ==
    /\ pc = "coeffs"
    /\ \E r \in {Heap_inverseTransformBlocksJS(ret.heap, ret.coeffs, arg.T,
                                               arg.meanVec)} :
          ret' = [ret EXCEPT !.heap = r.heap, !.op = "inverseTransformBlocksJS"]
    /\ pc' = "done"
    /\ UNCHANGED <<arg, appVars>>

FrameKeepTopK ==
    /\ pc = "coeffs"
    /\ \E r \in {Heap_keepTopK(ret.heap, ret.coeffs, arg.k)} :
          ret' = [ret EXCEPT !.heap = r.heap, !.op = "keepTopK"]
    /\ pc' = "done"
    /\ UNCHANGED <<arg, appVars>>

FrameEnergy ==
    /\ pc = "coeffs"
    /\ \E r \in {Heap_energyCompactionCurveJS(ret.heap, ret.coeffs, arg.k)} :
          ret' = [ret EXCEPT !.heap = r.heap, !.op = "energyCompactionCurveJS"]
    /\ pc' = "done"
    /\ UNCHANGED <<arg, appVars>>

\* rateDistortionJS, lines 232..243: the iteration for kValues[i]
FrameRDIterate ==
    /\ pc \in {"coeffs", "loop"}
    /\ ret.i < Len(arg.kValues)
    /\ \E r \in {Heap_RDIteration(ret.heap, ret.coeffs, arg.shape, arg.width,
                                  arg.height, arg.T, arg.meanVec,
                                  arg.kValues[ret.i + 1])} :
          ret' = [ret EXCEPT !.heap = r.heap, !.op = "rateDistortionJS",
                             !.i = @ + 1]
    /\ pc' = "loop"
    /\ UNCHANGED <<arg, appVars>>

NextFrame ==
    \/ FrameExtract
    \/ FrameReconstruct
    \/ FramePca
    \/ FrameTransform
    \/ FrameInverse
    \/ FrameKeepTopK
    \/ FrameEnergy
    \/ FrameRDIterate

SpecFrame == InitFrame /\ [][NextFrame]_vars

\* C11: after each core call, every array that was on the heap before the
\* run (the grid, the blocks and their rows, the basis and its rows, the
\* mean vector) holds what it held, and so does the coefficient matrix from
\* the moment transformBlocksJS returned it: keepTopK with any k,
\* inverseTransformBlocksJS, energyCompactionCurveJS and every k iteration
\* of rateDistortionJS find it as it was computed.
C11_InputsUnmodified ==
    pc \in {"coeffs", "loop", "done"} =>
        /\ \A r \in 1..Len(arg.heap) : ret.heap[r] = arg.heap[r]
        /\ ret.coeffs # 0 => Rows(ret.heap, ret.coeffs) = ret.computed
        /\ ret.coeffs # 0 =>
              ret.computed = transformBlocksJS(Rows(arg.heap, arg.blocks),
                                 Rows(arg.heap, arg.T),
                                 MeanOf(arg.heap, arg.meanVec)).value

\* keepTopK has zeroed entries of its copy, with a mean vector in use and a
\* second iteration of rateDistortionJS under way.
C11_Witness ==
    /\ pc = "loop"
    /\ ret.i = 2
    /\ arg.meanVec # 0
    /\ arg.k = 1
    /\ \E i \in 1..Len(ret.computed) :
          keepTopKRow(ret.computed[i], arg.k) # ret.computed[i]
    /\ Len(ret.heap) > Len(arg.heap)

----------------------------------------------------------------------------
(* pcaTransformJS run on its own, and the coefficients its basis gives *)

\* Collections of 1..MaxBlocks blocks of 1..DenseSamples samples: fewer
\* blocks than samples, as many, and more.
InitPca ==
    /\ pc = "start"
    /\ arg \in UNION {BlockCollections(d) : d \in 1..DenseSamples}
    /\ ret = [pca |-> Return(<<>>), coeffs |-> Return(<<>>)]
    /\ AppStart

CallPca ==
    /\ pc = "start"
    /\ \E rev \in BOOLEAN :
          ret' = [ret EXCEPT !.pca = pcaTransformJS(arg, rev)]
    /\ pc' = "basis"
    /\ UNCHANGED <<arg, appVars>>

\* transformBlocksJS(blocksFlat, T_pca, pcaMean)
PcaCoefficients ==
    /\ pc = "basis"
    /\ ~ret.pca.threw
    /\ ret' = [ret EXCEPT !.coeffs =
                  transformBlocksJS(arg, ret.pca.value.T, ret.pca.value.mean)]
    /\ pc' = "done"
    /\ UNCHANGED <<arg, appVars>>

NextPca == CallPca \/ PcaCoefficients

SpecPca == InitPca /\ [][NextPca]_vars

\* C14: for every non-empty collection of blocks of length d, with at least
\* d blocks or fewer, pcaTransformJS returns a basis of d rows of length d
\* and a mean vector of length d that is the elementwise arithmetic mean of
\* the blocks; the coefficient matrix the basis gives has d columns.
C14_PcaBasisShape ==
    LET numSamples == Len(arg)
        d == Len(arg[1])
    IN  /\ pc \in {"basis", "done"} =>
              /\ ~ret.pca.threw
              /\ Len(ret.pca.value.T) = d
              /\ \A i \in 1..Len(ret.pca.value.T) : Len(ret.pca.value.T[i]) = d
              /\ Len(ret.pca.value.mean) = d
              /\ \A j \in 1..d :
                    2 * Abs(ret.pca.value.mean[j] * numSamples
                            - SumSeq([i \in 1..numSamples |-> arg[i][j]]))
                        <= numSamples
        /\ pc = "done" =>
              /\ ~ret.coeffs.threw
              /\ Len(ret.coeffs.value) = numSamples
              /\ \A i \in 1..numSamples : Len(ret.coeffs.value[i]) = d

----------------------------------------------------------------------------
(* runSweepForCurrentImage as one call, nothing running between its passes *)

\* Lines 61..137 from the i-th block size on, results being the rows pushed
\* so far, revs[i] the decomposition of the i-th pass and awaits what
\* results held at each await of line 134 so far: how the call ends, and
\* results at each of its awaits.
RECURSIVE SweepFrom(_, _, _, _, _)
SweepFrom(imgEl, revs, i, results, awaits) ==
    IF i > Len(SweepBlockSizes)
    THEN [outcome |-> Return(results), awaits |-> awaits]
    ELSE LET B == SweepBlockSizes[i]
             it == SweepIteration(toGrayscaleFloat(imgEl, B), B, revs[i])
         IN  IF it.threw THEN [outcome |-> it, awaits |-> awaits]
             ELSE SweepFrom(imgEl, revs, i + 1, results \o it.value,
                            Append(awaits, results \o it.value))

runSweepForCurrentImage(imgEl, revs) == SweepFrom(imgEl, revs, 1, <<>>, <<>>)

SweepRevs == [1..Len(SweepBlockSizes) -> BOOLEAN]

\* The call for every image and decomposition, worked out once
Sweeps ==
    [t \in {<<src, revs>> : src \in ImageUrls \cup ImageUploads,
                              revs \in SweepRevs} |->
        runSweepForCurrentImage(Decode(t[1]), t[2])]

\* The uninterrupted calls on image src whose first passes decompose as revs
SweepsLike(src, revs) ==
    {Sweeps[<<src, all>>] :
        all \in {r \in SweepRevs : \A j \in 1..Len(revs) : r[j] = revs[j]}}

\* C12: whatever runs between the passes of a sweep (Load Image and its
\* onload, edits of the block size and of k, Run Transforms & Analysis and
\* its resumption), the sweep goes as the uninterrupted call on the image
\* element it was started with goes: at each await its results are that
\* call's results at that await, what it logs and exports when it returns
\* is what such a call returns, and the error shown when a pass throws is
\* the error such a call throws.
C12_SweepIgnoresInterleaving ==
    [][/\ (sweeping' # Null /\ sweeping' # sweeping) =>
             \E call \in SweepsLike(sweeping'[1].imgEl, sweeping'[1].revs) :
                /\ Len(call.awaits) >= sweeping'[1].i
                /\ call.awaits[sweeping'[1].i] = sweeping'[1].results
       /\ (sweeping # Null /\ sweeping' = Null) =>
             \E call \in SweepsLike(sweeping[1].imgEl, sweeping[1].revs) :
                IF sweeping[1].i = Len(SweepBlockSizes)
                THEN /\ call.outcome = Return(consoleTable'[1])
                     /\ download' = Some(Csv(consoleTable'[1]))
                ELSE /\ call.outcome.threw
                     /\ Len(call.awaits) = sweeping[1].i
                     /\ status' = "Error during sweep: " \o call.outcome.error
      ]_vars

\* A sweep of the 4 x 4 image has made its first pass and awaits; meanwhile
\* another image has been loaded into imgElementRef and the hidden canvas
\* redrawn for it with another block size.
C12_Witness ==
    /\ sweeping # Null
    /\ sweeping[1].i = 1
    /\ sweeping[1].imgEl = "b.png"
    /\ imgElementRef = "a.png"
    /\ hiddenCanvas.width # sweeping[1].results[1].blockSize
    /\ \E call \in SweepsLike("b.png", sweeping[1].revs) :
          call.awaits[1] = sweeping[1].results

\* C13: a sweep that has completed logged and exported one row per block
\* size, k fraction and transform, |blockSizes| x |kFractions| x 3 rows,
\* ordered by block size, then by k fraction (k not decreasing), then DCT,
\* Hadamard, PCA; in every row 1 <= k <= d = B * B and rate = k / d lies in
\* (0, 1]; the file is the header blockSize,k,rate,transform,psnr and then
\* those rows in that order, rate and psnr to four decimals.
C13_SweepRowsAndCsv ==
    download # Null =>
        LET results == consoleTable[1]
            csv == download[1]
            nK == Len(KFractions)
        IN  /\ Len(results) = Len(SweepBlockSizes) * nK * 3
            /\ csv.header = "blockSize,k,rate,transform,psnr"
            /\ Len(csv.rows) = Len(results)
            /\ \A n \in 1..Len(results) :
                  LET r == results[n]
                      B == SweepBlockSizes[((n - 1) \div (3 * nK)) + 1]
                      i == (((n - 1) \div 3) % nK) + 1
                      d == B * B
                  IN  /\ r.blockSize = B
                      /\ r.transform = TransformNames[((n - 1) % 3) + 1]
                      /\ 1 <= r.k /\ r.k <= d
                      /\ r.k = 1 \/ 2 * Abs(1000 * r.k - KFractions[i] * d) <= 1000
                      /\ i > 1 => results[n - 3].k <= r.k
                      /\ 2 * Abs(r.rate * d - r.k * One) <= d
                      /\ 0 < r.rate /\ r.rate <= One
                      /\ csv.rows[n].blockSize = r.blockSize
                      /\ csv.rows[n].k = r.k
                      /\ csv.rows[n].transform = r.transform
                      /\ 2 * Abs(csv.rows[n].rate * One - 10000 * r.rate) <= One
                      /\ IF IsFinite(r.psnr)
                         THEN 2 * Abs(csv.rows[n].psnr * One - 10000 * r.psnr) <= One
                         ELSE csv.rows[n].psnr = r.psnr

\* The file of a completed sweep: 2 x 2 blocks first, 4 x 4 blocks last, the
\* lowest and the full rate, and a k that two fractions share.
C13_Witness ==
    /\ download # Null
    /\ Len(download[1].rows) = 42
    /\ download[1].rows[1] = [blockSize |-> 2, k |-> 1, rate |-> 2500,
                              transform |-> "DCT",
                              psnr |-> download[1].rows[1].psnr]
    /\ download[1].rows[4].k = 1
    /\ download[1].rows[42].blockSize = 4
    /\ download[1].rows[42].transform = "PCA"
    /\ download[1].rows[42].rate = 10000
    /\ download[1].rows[19].psnr = 10000 * PsnrSentinel

----------------------------------------------------------------------------
(* App: the block size of the stored blocks and of the bases *)

\* C15: whenever runAnalysis hands blocks and bases to the core, the stored
\* blocks were partitioned with the block size B the run builds its bases
\* with: every block has length B * B, and the width and the height of the
\* stored image are exact multiples of B.
C15_BlocksMatchBlockSize ==
    running # Null =>
        /\ \A i \in 1..Len(running[1].blocksFlat) :
              Len(running[1].blocksFlat[i]) = running[1].B * running[1].B
        /\ running[1].originalImage.width % running[1].B = 0
        /\ running[1].originalImage.height % running[1].B = 0

----------------------------------------------------------------------------
(* App: an analysis run and a sweep at the same time *)

\* C17: at no time are an analysis run and a sweep both in progress:
\* isRunning and isSweepRunning are never true together, and no analysis
\* run waits at its await while a sweep waits at one of its own.
C17_AnalysisAndSweepExclusive ==
    /\ ~(isRunning /\ isSweepRunning)
    /\ ~(running # Null /\ sweeping # Null)

----------------------------------------------------------------------------
(* App: a basis build that fails *)

NotPowerOfTwo(B) == \A e \in 0..B : B # Pow2(e)

\* C18: when the run that ends had a block size that is not a power of two,
\* so that hadamardMatrixJS threw while the bases were built, the status
\* becomes 'Error during analysis: ' followed by the message of the error,
\* the four basis refs and the two displayed matrices keep the values they
\* had, metrics stays null, and the stored image, blocks and shape are
\* unchanged.
C18_BasisFailureSurfaced ==
    [][(running # Null /\ running' = Null /\ NotPowerOfTwo(running[1].B)) =>
          /\ status' = "Error during analysis: " \o HadamardError
          /\ T_dctRef' = T_dctRef
          /\ T_hadRef' = T_hadRef
          /\ T_pcaRef' = T_pcaRef
          /\ pcaMeanRef' = pcaMeanRef
          /\ dctMatrix' = dctMatrix
          /\ hadMatrix' = hadMatrix
          /\ metrics = Null
          /\ metrics' = Null
          /\ originalImageRef' = originalImageRef
          /\ blocksFlatRef' = blocksFlatRef
          /\ blocksShapeRef' = blocksShapeRef
          /\ ~isRunning'
      ]_vars

\* A run with block size 3 has failed after an earlier run had stored its
\* bases: the bases of the earlier run are still there.
C18_Witness ==
    /\ status = "Error during analysis: " \o HadamardError
    /\ running = Null
    /\ ~isRunning
    /\ blockSize = 3
    /\ T_dctRef # Null
    /\ T_hadRef # Null
    /\ dctMatrix # Null
    /\ metrics = Null
    /\ originalImageRef # Null

----------------------------------------------------------------------------
(* App: the two running flags are set back *)

\* The continuation of runAnalysis after its await and the continuations of
\* the sweep after each of its awaits are timer tasks (setTimeout(resolve, 0),
\* lines 245 and 134): once queued, the event loop runs them, whatever else
\* the user does.  A click or an image that finishes loading is not owed.
LiveSpec ==
    /\ Spec
    /\ WF_vars(runAnalysisResume)
    /\ WF_vars(sweepResume)
    /\ WF_vars(sweepReturn)

\* C16: every analysis run that sets isRunning to true eventually sets it
\* back to false, and every sweep that sets isSweepRunning to true eventually
\* sets it back to false, whether the run completes or a core operation
\* throws; a click on Run Transforms & Analysis that is refused with
\* 'Load an image first.' leaves isRunning false.
C16_RunningFlagsCleared ==
    /\ isRunning ~> ~isRunning
    /\ isSweepRunning ~> ~isSweepRunning
    /\ [][(status' = "Load an image first." /\ events' # events) =>
              (~isRunning /\ ~isRunning' /\ running' = running)]_vars

\* A sweep has thrown (the image is smaller than the block size of the pass,
\* so the canvas has no area) and its flag is false again; an analysis run
\* has come to its end, too.
C16_Witness ==
    /\ status = "Error during sweep: IndexSizeError"
    /\ ~isSweepRunning
    /\ sweeping = Null
    /\ ~isRunning
    /\ running = Null
    /\ metrics # Null

====
